---- MODULE Spec2Model ----
(***************************************************************************)
(* A model of notion-file-transfer: upload.py (split a local video file    *)
(* into chunks and parts, one remote record per chunk) and download.py     *)
(* (fetch every pending record in parts, join the parts, join the chunk    *)
(* fragments of a multi-record file, update the records' tags).            *)
(*                                                                         *)
(* Text (file names, descriptions, path suffixes) is a sequence of         *)
(* one-character strings.  A byte sequence is a sequence of extents        *)
(* <<f, a, b>>: the bytes at offsets a..b of the local file f they were    *)
(* read from, adjacent extents merged; every byte of every file is thereby *)
(* distinct, and two byte sequences are equal iff their extents are.       *)
(***************************************************************************)
EXTENDS Integers, Sequences, FiniteSets, TLC

\* ------------------------------------------------------------------ bounds

\* How many requests and local writes fail in one behaviour, at most.
MaxFaults == 2

\* Largest file size, chunk cap and part caps of the small round trips.
MaxRTSize == 5
MaxRTCap == 3
MaxRTPart == 2

\* The chunk count of the long round trip: the first count whose last
\* fragment suffix has four digits.
ManyChunks == 1000

\* Largest totalSize / unitSize the range planner is tried on.
MaxPlanTotal == 12
MaxPlanUnit == 5

\* ------------------------------------------------------- program constants

\* download.py: MAX_WORKERS = 8 (also upload.py line 26, same value).
MAX_WORKERS == 8
\* download.py: PART_SIZE_MB = 10
PART_SIZE_MB == 10
\* download.py line 91: part_size = PART_SIZE_MB * 1024 * 1024
DownloadPartSize == PART_SIZE_MB * 1024 * 1024
\* upload.py: PART_SIZE = 20 * 1024**2
PART_SIZE == 20 * 1024 * 1024
\* upload.py: MAX_FILE_SIZE = 5 * 1024**3.  The model checker's integers are
\* 32 bits wide, so the cap is scaled to 50 MiB: a full chunk then has the
\* parts 20 MiB, 20 MiB, 10 MiB (two full parts and a partial last one).
MAX_FILE_SIZE == 50 * 1024 * 1024

\* ------------------------------------------------------------------ state

VARIABLES
    \* the range planner on its own
    planKind,    \* which plan was made: "none" before
    planTotal,   \* totalSize
    planUnit,    \* unitSize
    planRanges,  \* the planned inclusive ranges
    \* the environment
    faults,      \* how many requests and local writes have failed so far
    \* the remote store
    sessions,    \* the upload sessions, by upload id
    pages,       \* the database's records, in creation order
    \* upload.py
    folder,      \* FOLDER_PATH: entry name -> size (IsDir for a directory)
    uploaded,    \* UPLOADED_FOLDER_PATH: the names moved there
    upc,         \* where the upload script is
    upRun,       \* the number of the current run of the upload script
    upTodo,      \* the entries of os.listdir not yet iterated
    upFile,      \* filename of the file in progress
    upChunk,     \* chunk_index (0-based)
    upParts,     \* part_num -> "queued" | "running" | "ok" | "failed"
    upLog,       \* what the upload runs have done, as a set of events
    \* download.py
    disk,        \* DOWNLOAD_FOLDER_PATH: path -> content of the file there
    partsDirs,   \* the final paths whose "<path>.parts" directory exists
    tmpDir,      \* whether temp_chunks exists
    dpc,         \* where main() is
    dRun,        \* the number of the current run of main()
    tasks,       \* tasks_to_size_check / download_tasks: the task_info dicts
    groups,      \* chunk_files_info: original filename -> task list
    dl,          \* per task: the state of its download_file_multipart call
    successful,  \* successful_tasks (the order of completion is not kept)
    dTagged,     \* the successful tasks the tag loop has been through
    di,          \* the loop index of the phase main() is in
    dj,          \* the inner loop index (members of a group)
    dLog,        \* what the download runs have done, as a set of events
    \* an upload followed by a download
    rtIn,        \* the file and the caps: name, size, cap, part_cap, dl_part
    rtPc,        \* how far the round trip is
    \* one function of the program called on its own
    callPc,      \* how far the call is: "off" when no function is called alone
    callIn,      \* the arguments
    callOut      \* what the call gave

planVars == <<planKind, planTotal, planUnit, planRanges>>

upVars == <<folder, uploaded, upc, upRun, upTodo, upFile, upChunk, upParts, upLog>>

downVars == <<disk, partsDirs, tmpDir, dpc, dRun, tasks, groups, dl, successful,
              dTagged, di, dj, dLog>>

remoteVars == <<sessions, pages>>

rtVars == <<rtIn, rtPc>>

callVars == <<callPc, callIn, callOut>>

vars == <<planVars, faults, remoteVars, upVars, downVars, rtVars, callVars>>

\* ------------------------------------------------------------------- text

Min(a, b) == IF a < b THEN a ELSE b

\* A request or a local write succeeds (ok) or fails; n failures are counted.
Failures(n) == faults + n <= MaxFaults /\ faults' = faults + n

Outcome(ok) == IF ok THEN UNCHANGED faults ELSE Failures(1)

DigitChars == <<"0", "1", "2", "3", "4", "5", "6", "7", "8", "9">>

IsDigit(c) == \E d \in 1..10 : DigitChars[d] = c

DigitVal(c) == (CHOOSE d \in 1..10 : DigitChars[d] = c) - 1

\* str(n) of a natural number, as Python's f-string renders {n}.
RECURSIVE Dec(_)
Dec(n) == IF n < 10 THEN <<DigitChars[n + 1]>>
          ELSE Dec(n \div 10) \o <<DigitChars[(n % 10) + 1]>>

\* f"{n:0<w>d}": zero-padded to at least w digits, never truncated.
RECURSIVE ZeroPad(_, _)
ZeroPad(w, s) == IF Len(s) >= w THEN s ELSE ZeroPad(w, <<"0">> \o s)

\* int(s) of a non-empty digit string.
RECURSIVE IntOf(_)
IntOf(s) == IF Len(s) = 0 THEN 0
            ELSE 10 * IntOf(SubSeq(s, 1, Len(s) - 1)) + DigitVal(s[Len(s)])

AllDigits(s) == Len(s) > 0 /\ \A i \in 1..Len(s) : IsDigit(s[i])

EndsWith(s, suf) ==
    Len(s) >= Len(suf) /\ SubSeq(s, Len(s) - Len(suf) + 1, Len(s)) = suf

\* ------------------------------------------------------------------ bytes

SegLen(seg) == seg[3] - seg[2] + 1

RECURSIVE BytesLen(_)
BytesLen(bs) == IF bs = <<>> THEN 0 ELSE SegLen(bs[1]) + BytesLen(Tail(bs))

\* Concatenation of two byte sequences (normalised).
Cat(x, y) ==
    IF x = <<>> THEN y
    ELSE IF y = <<>> THEN x
    ELSE LET l == x[Len(x)]
             r == y[1]
         IN IF l[1] = r[1] /\ l[3] + 1 = r[2]
            THEN SubSeq(x, 1, Len(x) - 1) \o <<<<l[1], l[2], r[3]>>>> \o Tail(y)
            ELSE x \o y

\* The bytes at offsets lo..hi (inclusive, 0-based) of bs, clipped to bs.
RECURSIVE Slice(_, _, _)
Slice(bs, lo, hi) ==
    IF bs = <<>> \/ hi < lo \/ hi < 0 THEN <<>>
    ELSE LET n == SegLen(bs[1])
             s == bs[1]
         IN IF lo >= n THEN Slice(Tail(bs), lo - n, hi - n)
            ELSE LET a == IF lo < 0 THEN 0 ELSE lo
                     b == Min(hi, n - 1)
                 IN Cat(<<<<s[1], s[2] + a, s[2] + b>>>>,
                        Slice(Tail(bs), 0, hi - n))

\* The content of a local file f of the given size.
FileBytes(f, size) == IF size = 0 THEN <<>> ELSE <<<<f, 0, size - 1>>>>

\* --------------------------------------------------------- range planning

\* download.py line 92: (total_size + part_size - 1) // part_size;
\* upload.py lines 144, 153: math.ceil(size / cap).
CeilDiv(total, unit) == (total + unit - 1) \div unit

\* The ranges without the clamp of the last one to the total.
NoLastClampRanges(total, unit) ==
    [i \in 1..CeilDiv(total, unit) |-> <<(i - 1) * unit, i * unit - 1>>]

\* download.py lines 96-98: the inclusive byte range of part i (0-based).
DownloadRanges(total, unit) ==
    [i \in 1..CeilDiv(total, unit) |->
        <<(i - 1) * unit, Min(i * unit - 1, total - 1)>>]

\* upload.py lines 147-149: chunk_start, chunk_end (exclusive) of chunk i
\* (0-based), as the inclusive range [chunk_start, chunk_end - 1].
UploadChunkRanges(total, unit) ==
    [i \in 1..CeilDiv(total, unit) |->
        LET chunk_start == (i - 1) * unit
            chunk_end == Min(chunk_start + unit, total)
        IN <<chunk_start, chunk_end - 1>>]

\* upload.py lines 169-171: bytes_to_read of part part_num (1-based).
BytesToRead(chunk_size, unit, part_num) ==
    Min(unit, chunk_size - (part_num - 1) * unit)

\* upload.py lines 164-171: the file is read sequentially from the chunk's
\* start; the position before part part_num is the sum of the earlier reads.
RECURSIVE ReadPos(_, _, _)
ReadPos(chunk_size, unit, part_num) ==
    IF part_num = 1 THEN 0
    ELSE ReadPos(chunk_size, unit, part_num - 1)
         + BytesToRead(chunk_size, unit, part_num - 1)

\* The inclusive ranges (relative to the chunk) of the parts of a chunk.
UploadPartRanges(chunk_size, unit) ==
    [p \in 1..CeilDiv(chunk_size, unit) |->
        <<ReadPos(chunk_size, unit, p),
          ReadPos(chunk_size, unit, p) + BytesToRead(chunk_size, unit, p) - 1>>]

\* ------------------------------------------------------------ file names

NameA == <<"a", ".", "m", "p", "4">>
NameB == <<"b", ".", "M", "K", "V">>
NameC == <<"c", ".", "m", "p", "4">>
NameE == <<"e", ".", "m", "p", "4">>
NameT == <<"n", ".", "t", "x", "t">>
NameDir == <<"u", "p">>

ExtMp4 == <<".", "m", "p", "4">>
ExtMkv == <<".", "m", "k", "v">>

\* str.lower() on the letters that occur in the modelled names.
LowerChar(c) ==
    CASE c = "M" -> "m" [] c = "K" -> "k" [] c = "V" -> "v" [] c = "P" -> "p"
      [] OTHER -> c

Lower(s) == [i \in 1..Len(s) |-> LowerChar(s[i])]

\* upload.py line 129: filename.lower().endswith((".mp4", ".mkv"))
IsVideo(filename) ==
    EndsWith(Lower(filename), ExtMp4) \/ EndsWith(Lower(filename), ExtMkv)

\* os.path.splitext: the extension starts at the last dot that has a
\* non-dot character before it.
SplitExt(s) ==
    LET dots == {i \in 1..Len(s) :
                    s[i] = "." /\ \E j \in 1..(i - 1) : s[j] # "."}
    IN IF dots = {} THEN <<s, <<>> >>
       ELSE LET d == CHOOSE i \in dots : \A j \in dots : j <= i
            IN <<SubSeq(s, 1, d - 1), SubSeq(s, d, Len(s))>>

\* upload.py lines 133-136
NotionFilename(filename) ==
    IF EndsWith(Lower(filename), ExtMkv)
    THEN SplitExt(filename)[1] \o ExtMp4
    ELSE filename

\* upload.py lines 155-156: f"{name}_chunk{chunk_index+1}{ext}"
ChunkFilename(filename, chunk_index) ==
    LET ne == SplitExt(NotionFilename(filename))
    IN ne[1] \o <<"_", "c", "h", "u", "n", "k">> \o Dec(chunk_index + 1) \o ne[2]

\* upload.py line 89: f"{description_filename} (chunk {chunk_index} of {total_chunks})"
DescriptionText(description_filename, chunk_index, total_chunks) ==
    description_filename \o <<" ", "(", "c", "h", "u", "n", "k", " ">>
        \o Dec(chunk_index) \o <<" ", "o", "f", " ">> \o Dec(total_chunks)
        \o <<")">>

\* ------------------------------------------------------------------- tags

TagPython == "Python"
TagPending == "pending"       \* the tag "ダウンロード待ち" of download.py
TagDownloaded == "downloaded" \* NOTION_DOWNLOADED_TAG_NAME, "ダウンロード済み"

\* A tag as the remote database returns it: the option's id and its name.
\* A tag the client adds by name alone has no id yet.
NoId == "none"
RemoteTag(name) == [id |-> name, name |-> name]
ClientTag(name) == [id |-> NoId, name |-> name]

\* ------------------------------------------------------- upload pipeline

\* The bytes of part part_num (1-based) of chunk chunk_index (0-based) of a
\* file, read as upload.py lines 147-171 read them: seek to chunk_start,
\* then sequential reads of bytes_to_read.
UploadPartBytes(filename, file_size, cap, part_cap, chunk_index, part_num) ==
    LET chunk_start == chunk_index * cap
        chunk_end == Min(chunk_start + cap, file_size)
        chunk_size == chunk_end - chunk_start
        pos == chunk_start + ReadPos(chunk_size, part_cap, part_num)
        n == BytesToRead(chunk_size, part_cap, part_num)
    IN Slice(FileBytes(filename, file_size), pos, pos + n - 1)

\* The session is sized to the part count of the whole file.
PartsOfWholeFile(file_size, cap, part_cap, chunk_index) == CeilDiv(file_size, part_cap)

\* upload.py lines 147-153: the part count of chunk chunk_index (0-based).
NumParts(file_size, cap, part_cap, chunk_index) ==
    LET chunk_start == chunk_index * cap
        chunk_end == Min(chunk_start + cap, file_size)
    IN CeilDiv(chunk_end - chunk_start, part_cap)

\* The remote store's side of complete_file_upload: the object is the parts
\* received, in part-number order.
RECURSIVE JoinReceived(_, _)
JoinReceived(received, n) ==
    IF n = 0 THEN <<>> ELSE Cat(JoinReceived(received, n - 1), received[n])

\* upload.py lines 91-115: the record create_page_with_file creates.
NewPage(page_title, description_filename, chunk_index, total_chunks, obj) ==
    [title |-> page_title,
     desc |-> DescriptionText(description_filename, chunk_index, total_chunks),
     tags |-> <<RemoteTag(TagPython)>>,
     obj |-> obj]

\* The entries of FOLDER_PATH the upload scenarios start from: a name maps
\* to its size in bytes, or to -1 for a directory.
IsDir == -1

SourceSize ==
    (NameA :> (MAX_FILE_SIZE + 1)) @@ (NameB :> 1)
        @@ (NameC :> (MAX_FILE_SIZE + PART_SIZE + 1))
        @@ (NameE :> 0) @@ (NameT :> 7) @@ (NameDir :> IsDir)

UploadFolders ==
    { [f \in names |-> SourceSize[f]] :
        names \in { {NameA, NameB}, {NameC}, {NameE, NameT, NameDir, NameB} } }

\* How many times the upload pipeline is run.
MaxUploadRuns == 2

Event(ev, run, file, chunk) == [ev |-> ev, run |-> run, file |-> file, chunk |-> chunk]

IdleUpload ==
    /\ folder = <<>>
    /\ uploaded = {}
    /\ upc = "idle"
    /\ upRun = 0
    /\ upTodo = {}
    /\ upFile = <<>>
    /\ upChunk = 0
    /\ upParts = <<>>
    /\ upLog = {}

\* upload.py line 144
NumChunks(filename) == CeilDiv(folder[filename], MAX_FILE_SIZE)

\* upload.py line 123: os.listdir(FOLDER_PATH), once per run.
UpStartRun ==
    /\ upc = "idle"
    /\ upRun < MaxUploadRuns
    /\ upRun' = upRun + 1
    /\ upTodo' = DOMAIN folder
    /\ upc' = "scan"
    /\ upLog' = upLog \cup {Event("listed", upRun + 1, f, 0) : f \in DOMAIN folder}
    /\ UNCHANGED <<folder, uploaded, sessions, pages, upFile, upChunk, upParts>>
    /\ UNCHANGED <<faults, planVars, rtVars, callVars, downVars>>

\* upload.py lines 123-145: the next entry of the listing; directories and
\* other extensions are skipped, a file of no chunk has no loop iteration.
UpNextFile ==
    /\ upc = "scan"
    /\ \E f \in upTodo :
        /\ upTodo' = upTodo \ {f}
        /\ upLog' = upLog \cup {Event("visited", upRun, f, 0)}
        /\ IF folder[f] # IsDir /\ IsVideo(f) /\ NumChunks(f) > 0
           THEN upFile' = f /\ upChunk' = 0 /\ upc' = "session"
           ELSE UNCHANGED <<upFile, upChunk, upc>>
    /\ UNCHANGED <<folder, uploaded, sessions, pages, upRun, upParts>>
    /\ UNCHANGED <<faults, planVars, rtVars, callVars, downVars>>

\* The listing is exhausted: the script ends.
UpEndRun ==
    /\ upc = "scan"
    /\ upTodo = {}
    /\ upc' = "idle"
    /\ UNCHANGED <<folder, uploaded, sessions, pages, upRun, upTodo, upFile,
                   upChunk, upParts, upLog>>
    /\ UNCHANGED <<faults, planVars, rtVars, callVars, downVars>>

\* upload.py lines 224-228: except ... break.
UpAbort(why) ==
    /\ upc' = "scan"
    /\ upParts' = <<>>
    /\ upLog' = upLog \cup {Event(why, upRun, upFile, upChunk + 1)}

\* upload.py lines 153-173: create_file_upload, then every part is read and
\* submitted to the pool.
UpCreateSession ==
    /\ upc = "session"
    /\ \E ok \in BOOLEAN :
        /\ Outcome(ok)
        /\ IF ok
           THEN LET n == NumParts(folder[upFile], MAX_FILE_SIZE, PART_SIZE, upChunk)
                IN /\ sessions' = Append(sessions,
                           [filename |-> ChunkFilename(upFile, upChunk),
                            number_of_parts |-> n,
                            received |-> <<>>,
                            sends |-> 0,
                            completed |-> FALSE])
                   /\ upParts' = [p \in 1..n |-> "queued"]
                   /\ upc' = "parts"
                   /\ upLog' = upLog \cup {Event("session", upRun, upFile, upChunk + 1)}
           ELSE UpAbort("session_failed") /\ UNCHANGED sessions
    /\ UNCHANGED <<folder, uploaded, pages, upRun, upTodo, upFile, upChunk>>
    /\ UNCHANGED <<planVars, rtVars, callVars, downVars>>

UpRunning == {p \in DOMAIN upParts : upParts[p] = "running"}

\* The with-block of the pool is left without waiting.
PoolNotAwaited(queued, running) == TRUE

\* upload.py line 167, download.py line 101: leaving the with-block of a
\* ThreadPoolExecutor waits until every submitted call has run: none is
\* queued and none is running.  Nothing cancels a submitted call.
PoolDrained(queued, running) == queued = 0 /\ running = 0

\* A pool worker takes the oldest queued part (the pool's queue is FIFO and
\* has MAX_WORKERS workers).
UpStartPart ==
    /\ upc = "parts"
    /\ Cardinality(UpRunning) < MAX_WORKERS
    /\ \E p \in DOMAIN upParts :
        /\ upParts[p] = "queued"
        /\ \A q \in 1..(p - 1) : upParts[q] # "queued"
        /\ upParts' = [upParts EXCEPT ![p] = "running"]
    /\ UNCHANGED <<folder, uploaded, sessions, pages, upc, upRun, upTodo, upFile,
                   upChunk, upLog>>
    /\ UNCHANGED <<faults, planVars, rtVars, callVars, downVars>>

\* upload.py lines 57-67: send_file_part returns or raises.  The log tells a
\* part that finished after another part of the chunk had failed.
UpFinishPart ==
    /\ upc = "parts"
    /\ \E p \in UpRunning, ok \in BOOLEAN :
        /\ Outcome(ok)
        /\ LET id == Len(sessions)
               bytes == UploadPartBytes(upFile, folder[upFile], MAX_FILE_SIZE,
                                        PART_SIZE, upChunk, p)
               LateEvents ==
                   IF \E q \in DOMAIN upParts : upParts[q] = "failed"
                   THEN {Event("after_failure", upRun, upFile, upChunk + 1)}
                   ELSE {}
           IN IF ok
              THEN /\ upParts' = [upParts EXCEPT ![p] = "ok"]
                   /\ sessions' = [sessions EXCEPT
                           ![id].received = (p :> bytes) @@ @,
                           ![id].sends = @ + 1]
                   /\ upLog' = upLog \cup LateEvents
              ELSE /\ upParts' = [upParts EXCEPT ![p] = "failed"]
                   /\ upLog' = upLog \cup
                           {Event("part_failed", upRun, upFile, upChunk + 1)}
                           \cup LateEvents
                   /\ UNCHANGED sessions
    /\ UNCHANGED <<folder, uploaded, pages, upc, upRun, upTodo, upFile, upChunk>>
    /\ UNCHANGED <<planVars, rtVars, callVars, downVars>>

\* No result is looked at.
NoPartResultRaises(parts) == FALSE

\* upload.py lines 175-176: future.result() of a part that raised raises.
AnyPartFailed(parts) == \E p \in DOMAIN parts : parts[p] = "failed"

\* upload.py lines 167-196: leaving the pool's with-block waits for every
\* submitted part; a part that raised makes future.result() raise.
UpPartsDone ==
    /\ upc = "parts"
    /\ PoolDrained(Cardinality({p \in DOMAIN upParts : upParts[p] = "queued"}),
                   Cardinality(UpRunning))
    /\ IF AnyPartFailed(upParts)
       THEN UpAbort("aborted")
       ELSE /\ upc' = "finalize"
            /\ upParts' = <<>>
            /\ upLog' = upLog \cup {Event("parts_sent", upRun, upFile, upChunk + 1)}
    /\ UNCHANGED <<folder, uploaded, sessions, pages, upRun, upTodo, upFile, upChunk>>
    /\ UNCHANGED <<faults, planVars, rtVars, callVars, downVars>>

\* upload.py lines 198-199: complete_file_upload.
UpComplete ==
    /\ upc = "finalize"
    /\ \E ok \in BOOLEAN :
        /\ Outcome(ok)
        /\ IF ok
           THEN /\ sessions' = [sessions EXCEPT ![Len(sessions)].completed = TRUE]
                /\ upc' = "record"
                /\ upLog' = upLog \cup {Event("finalized", upRun, upFile, upChunk + 1)}
                /\ UNCHANGED upParts
           ELSE UpAbort("finalize_failed") /\ UNCHANGED sessions
    /\ UNCHANGED <<folder, uploaded, pages, upRun, upTodo, upFile, upChunk>>
    /\ UNCHANGED <<planVars, rtVars, callVars, downVars>>

\* The file is moved after whichever chunk.
MoveAfterAnyChunk(chunk_index, num_chunks) == TRUE

\* upload.py line 218: is this the chunk after which the file is moved?
IsLastChunk(chunk_index, num_chunks) == chunk_index + 1 = num_chunks

\* upload.py lines 205-222: create_page_with_file; after the last chunk the
\* file is moved to UPLOADED_FOLDER_PATH, otherwise the next chunk starts.
UpCreatePage ==
    /\ upc = "record"
    /\ \E ok \in BOOLEAN :
        /\ Outcome(ok)
        /\ IF ok
           THEN LET s == sessions[Len(sessions)]
                    n == NumChunks(upFile)
                    page == NewPage(NotionFilename(upFile), upFile, upChunk + 1, n,
                                    JoinReceived(s.received, s.number_of_parts))
                IN /\ pages' = Append(pages, page)
                   /\ UNCHANGED upParts
                   /\ IF IsLastChunk(upChunk, n)
                      THEN /\ folder' = [f \in DOMAIN folder \ {upFile} |-> folder[f]]
                           /\ uploaded' = uploaded \cup {upFile}
                           /\ upc' = "scan"
                           /\ upLog' = upLog \cup
                                   {Event("record", upRun, upFile, upChunk + 1),
                                    Event("moved", upRun, upFile, 0)}
                           /\ UNCHANGED upChunk
                      ELSE /\ upChunk' = upChunk + 1
                           /\ upc' = "session"
                           /\ upLog' = upLog \cup
                                   {Event("record", upRun, upFile, upChunk + 1)}
                           /\ UNCHANGED <<folder, uploaded>>
           ELSE UpAbort("record_failed") /\ UNCHANGED <<pages, folder, uploaded, upChunk>>
    /\ UNCHANGED <<sessions, upRun, upTodo, upFile>>
    /\ UNCHANGED <<planVars, rtVars, callVars, downVars>>

\* ----------------------------------------------------- download pipeline

\* The characters of the modelled texts in code-point order, for Python's
\* comparison of str values.
AsciiOrder ==
    <<"\n", " ", "(", ")", ".", "0", "1", "2", "3", "4", "5", "6", "7", "8", "9",
      "K", "M", "P", "V", "_", "a", "b", "c", "e", "f", "h", "k", "m", "n", "o",
      "p", "r", "t", "u", "v", "x">>

Ord(c) == CHOOSE i \in 1..Len(AsciiOrder) : AsciiOrder[i] = c

\* s < t for two str values: the first differing character decides, and a
\* proper prefix is smaller.
TextLess(s, t) ==
    LET differ == {i \in 1..Min(Len(s), Len(t)) : s[i] # t[i]}
    IN IF differ = {} THEN Len(s) < Len(t)
       ELSE LET d == CHOOSE i \in differ : \A k \in differ : i <= k
            IN Ord(s[d]) < Ord(t[d])

\* A sequence given by a rule, with every element worked out once.
Listed(seq) == seq \o <<>>

\* F of the value of v, with v worked out once.
Bind(v, F(_)) == CHOOSE r \in {F(x) : x \in {v}} : TRUE

\* The concatenation of the byte sequences bss[lo..hi], in index order.
RECURSIVE CatRange(_, _, _)
CatRange(bss, lo, hi) ==
    IF lo > hi THEN <<>>
    ELSE IF lo = hi THEN bss[lo]
    ELSE LET mid == (lo + hi) \div 2
         IN Cat(CatRange(bss, lo, mid), CatRange(bss, mid + 1, hi))

CatAll(bss) == CatRange(bss, 1, Len(bss))

\* download.py line 176: the tail " \(chunk (\d+) of (\d+)\)" of the pattern,
\* matched against the whole of t.  The result is <<digits, digits>> or <<>>.
ChunkWord == <<" ", "(", "c", "h", "u", "n", "k", " ">>
OfWord == <<" ", "o", "f", " ">>

TailGroups(t) ==
    IF Len(t) < Len(ChunkWord) + 1 + Len(OfWord) + 1 + 1
       \/ SubSeq(t, 1, Len(ChunkWord)) # ChunkWord
       \/ t[Len(t)] # ")"
    THEN <<>>
    ELSE LET m == SubSeq(t, Len(ChunkWord) + 1, Len(t) - 1)
             cuts == {i \in 1..(Len(m) - Len(OfWord) - 1) :
                         /\ AllDigits(SubSeq(m, 1, i))
                         /\ SubSeq(m, i + 1, i + Len(OfWord)) = OfWord
                         /\ AllDigits(SubSeq(m, i + Len(OfWord) + 1, Len(m)))}
         IN IF cuts = {} THEN <<>>
            ELSE LET i == CHOOSE c \in cuts : TRUE
                 IN <<SubSeq(m, 1, i), SubSeq(m, i + Len(OfWord) + 1, Len(m))>>

\* "$" matches at the end of the text and before a newline that ends it.
TailMatch(t) ==
    IF TailGroups(t) # <<>> THEN TailGroups(t)
    ELSE IF Len(t) > 0 /\ t[Len(t)] = "\n" THEN TailGroups(SubSeq(t, 1, Len(t) - 1))
    ELSE <<>>

\* download.py lines 176-179: re.search(r"^(.*?) \(chunk (\d+) of (\d+)\)$"):
\* the shortest prefix without a newline after which the tail matches.
ParseDescription(description) ==
    LET ps == {p \in 0..Len(description) :
                  /\ \A i \in 1..p : description[i] # "\n"
                  /\ TailMatch(SubSeq(description, p + 1, Len(description))) # <<>>}
    IN IF ps = {} THEN [match |-> FALSE]
       ELSE LET p == CHOOSE q \in ps : \A r \in ps : q <= r
                g == TailMatch(SubSeq(description, p + 1, Len(description)))
            IN [match |-> TRUE,
                original_filename |-> SubSeq(description, 1, p),
                chunk_num |-> IntOf(g[1]),
                total_chunks |-> IntOf(g[2])]

PartWord == <<".", "p", "a", "r", "t">>

\* download.py lines 188-192: the destination path of a candidate: the
\* directory ("dl" for DOWNLOAD_FOLDER_PATH, "tmp" for temp_chunks) and the
\* file name in it.
TaskPath(original_filename, chunk_num, total_chunks) ==
    IF total_chunks = 1
    THEN [dir |-> "dl", name |-> original_filename]
    ELSE [dir |-> "tmp",
          name |-> original_filename \o PartWord \o ZeroPad(3, Dec(chunk_num))]

\* download.py line 244
FinalPath(filename) == [dir |-> "dl", name |-> filename]

\* A Range GET of bytes lo..hi of a remote object.
RangeGet(obj, range) == Slice(obj, range[1], range[2])

\* download.py lines 91-98 and 124-128: the file the parts join to, when
\* every part was fetched: the parts part_0000.. in index order.
JoinParts(obj, total_size, part_size) ==
    LET ranges == DownloadRanges(total_size, part_size)
    IN CatAll([i \in 1..Len(ranges) |-> RangeGet(obj, ranges[i])])

\* list.sort() on paths of one directory: ascending by name, stable.
SortPaths(paths) ==
    Bind(Listed(paths), LAMBDA ps :
        LET n == Len(ps)
            before(i, j) == \/ TextLess(ps[i].name, ps[j].name)
                            \/ (ps[i].name = ps[j].name /\ i < j)
        IN Bind(Listed([i \in 1..n |-> Cardinality({j \in 1..n : before(j, i)}) + 1]),
                LAMBDA rank : Listed([r \in 1..n |-> ps[CHOOSE i \in 1..n : rank[i] = r]])))

\* download.py lines 139-142: the sorted fragments that are copied: all of
\* them, or those before the first one whose open() finds no file.
ReadableFragments(chunk_paths, files) ==
    Bind(SortPaths(chunk_paths), LAMBDA sorted :
        LET missing == {i \in 1..Len(sorted) : sorted[i] \notin DOMAIN files}
        IN IF missing = {} THEN sorted
           ELSE SubSeq(sorted, 1, (CHOOSE i \in missing : \A k \in missing : i <= k) - 1))

\* download.py lines 139-142: what reconstruct_file_from_chunks writes to
\* the final file from the fragments on disk.
Reconstruct(chunk_paths, files) ==
    Bind(ReadableFragments(chunk_paths, files), LAMBDA copied :
        CatAll([i \in 1..Len(copied) |-> files[copied[i]]]))

\* The pending tag is left in the list.
NewTagsKeepingPending(current_tags, downloaded_tag_name) ==
    IF \E i \in 1..Len(current_tags) : current_tags[i].name = downloaded_tag_name
    THEN current_tags
    ELSE Append(current_tags, ClientTag(downloaded_tag_name))

\* download.py lines 61-66: new_tags of update_page_tags.
NewTags(current_tags, downloaded_tag_name) ==
    LET kept == SelectSeq(current_tags, LAMBDA t : t.name # TagPending)
    IN IF \E i \in 1..Len(kept) : kept[i].name = downloaded_tag_name
       THEN kept
       ELSE Append(kept, ClientTag(downloaded_tag_name))

\* download.py lines 70-73: the (id, name) sets differ.
TagSet(tag_list) == {<<tag_list[i].id, tag_list[i].name>> : i \in 1..Len(tag_list)}

\* The PATCH is sent whatever the tags are.
AlwaysPatch(current_tags, new_tags) == TRUE

NeedsPatch(current_tags, new_tags) == TagSet(current_tags) # TagSet(new_tags)

\* The remote store's side of the PATCH: the record's tags become the ones
\* sent, each with its option id.
PatchedTags(new_tags) == [i \in 1..Len(new_tags) |-> RemoteTag(new_tags[i].name)]

\* download.py line 34: the filter of query_database.
IsPending(page) ==
    /\ \E i \in 1..Len(page.tags) : page.tags[i].name = TagPython
    /\ \E i \in 1..Len(page.tags) : page.tags[i].name = TagPending

\* The records an upload of a file creates when every step succeeds
\* (upload.py lines 144-211), for caps cap (chunk) and part_cap (part).
UploadedPages(filename, file_size, cap, part_cap) ==
    LET n == CeilDiv(file_size, cap)
    IN [k \in 1..n |->
            LET np == NumParts(file_size, cap, part_cap, k - 1)
                received == [q \in 1..np |->
                    UploadPartBytes(filename, file_size, cap, part_cap, k - 1, q)]
            IN NewPage(NotionFilename(filename), filename, k, n,
                       JoinReceived(received, np))]

\* A user of the database gives a record the pending tag.
MarkPending(page) == [page EXCEPT !.tags = Append(@, RemoteTag(TagPending))]

\* The databases the download scenarios start from.
Databases ==
    { \* a two-chunk file of 5 + 4 parts
      [i \in 1..2 |-> MarkPending(
          UploadedPages(NameB, MAX_FILE_SIZE + 4 * DownloadPartSize,
                        MAX_FILE_SIZE, PART_SIZE)[i])],
      \* two two-chunk files of one part per chunk, a record that is not
      \* pending and a pending record whose description is a bare name
      [i \in 1..4 |-> MarkPending(
          (UploadedPages(NameB, 3, 2, 1) \o UploadedPages(NameC, 4, 2, 1))[i])]
          \o UploadedPages(NameA, 1, MAX_FILE_SIZE, PART_SIZE)
          \o <<MarkPending([title |-> NameE, desc |-> NameE,
                            tags |-> <<RemoteTag(TagPython)>>,
                            obj |-> FileBytes(NameE, 1)])>>,
      \* two single-record files, of 2 parts and of 1 part
      [i \in 1..2 |-> MarkPending(
          (UploadedPages(NameA, DownloadPartSize + 1, MAX_FILE_SIZE, PART_SIZE)
           \o UploadedPages(NameE, 5, MAX_FILE_SIZE, PART_SIZE))[i])],
      \* a single-record file and a two-chunk file, of one part each
      [i \in 1..3 |-> MarkPending(
          (UploadedPages(NameE, 5, MAX_FILE_SIZE, PART_SIZE)
           \o UploadedPages(NameB, 3, 2, 1))[i])],
      \* a record whose file object is empty and a single-record file
      <<MarkPending(NewPage(NotionFilename(NameT), NameT, 1, 1, <<>>)),
        MarkPending(UploadedPages(NameE, 5, MAX_FILE_SIZE, PART_SIZE)[1])>> }

\* How many times the download script is run.
MaxDownloadRuns == 2

Unprobed == -1

DEvent(ev, id) == [ev |-> ev, run |-> dRun, id |-> id]

\* os.path.exists(path) for a file path.
Exists(path) == path \in DOMAIN disk

WriteFile(files, path, bytes) ==
    [q \in DOMAIN files \cup {path} |-> IF q = path THEN bytes ELSE files[q]]

RemoveFiles(files, paths) == [q \in DOMAIN files \ paths |-> files[q]]

\* download.py lines 171-195: the task_info of a listed page.
TaskInfo(page_id, page) ==
    LET d == ParseDescription(page.desc)
    IN [url |-> page_id, page_id |-> page_id, tags |-> page.tags,
        path |-> TaskPath(d.original_filename, d.chunk_num, d.total_chunks),
        original_filename |-> d.original_filename,
        total_chunks |-> d.total_chunks,
        size |-> Unprobed]

\* download.py lines 190-193: chunk_files_info after the listing, in
\* insertion order: one entry per original filename with its tasks.
GroupsOf(task_list) ==
    LET idx == [t \in 1..Len(task_list) |-> t]
        chunk(t) == task_list[t].total_chunks # 1
        same(t, u) == task_list[u].original_filename = task_list[t].original_filename
        heads == SelectSeq(idx, LAMBDA t :
                    chunk(t) /\ \A u \in 1..(t - 1) : ~(chunk(u) /\ same(t, u)))
    IN [r \in 1..Len(heads) |->
            [filename |-> task_list[heads[r]].original_filename,
             members |-> SelectSeq(idx, LAMBDA u : chunk(u) /\ same(heads[r], u))]]

\* The run's local state is dropped when main() returns.
DForget ==
    /\ tasks' = <<>>
    /\ groups' = <<>>
    /\ dl' = <<>>
    /\ successful' = {}
    /\ dTagged' = {}
    /\ di' = 0
    /\ dj' = 0

\* temp_chunks is never found empty: it is never removed.
TempChunksKept(files, dirs) == FALSE

\* download.py lines 253-258: the finally clause of main().
TempChunksEmpty(files, dirs) ==
    /\ \A q \in DOMAIN files : q.dir # "tmp"
    /\ \A q \in dirs : q.dir # "tmp"

\* temp_chunks was made at line 162, so it exists when the clause runs.
DFinish(files, dirs) ==
    /\ tmpDir' = ~TempChunksEmpty(files, dirs)
    /\ dpc' = "idle"
    /\ DForget

\* download.py lines 158-199: the directories are made, the database is
\* queried and the pending pages are listed.  A failed query raises out of
\* main(); a page whose description does not match or whose blocks cannot be
\* fetched is skipped.
DStartRun ==
    /\ dpc = "idle"
    /\ dRun < MaxDownloadRuns
    /\ dRun' = dRun + 1
    /\ \E query_ok \in BOOLEAN :
        IF ~query_ok
        THEN /\ Failures(1)
             /\ DFinish(disk, partsDirs)
             /\ dLog' = dLog \cup {[ev |-> "query_failed", run |-> dRun + 1, id |-> 0]}
        ELSE LET found == {i \in 1..Len(pages) : IsPending(pages[i])}
                 matching == {i \in found : ParseDescription(pages[i].desc).match}
             IN \E lost \in SUBSET matching :
                 /\ Failures(Cardinality(lost))
                 /\ LET listed == matching \ lost
                        nth(r) == CHOOSE i \in listed :
                            Cardinality({j \in listed : j < i}) = r - 1
                        task_list == [r \in 1..Cardinality(listed) |->
                                        TaskInfo(nth(r), pages[nth(r)])]
                    IN /\ dLog' = dLog \cup
                            {[ev |-> "listed", run |-> dRun + 1, id |-> i] : i \in listed}
                       /\ IF listed = {}
                          THEN DFinish(disk, partsDirs)
                          ELSE /\ tmpDir' = TRUE
                               /\ dpc' = "sizing"
                               /\ tasks' = task_list
                               /\ groups' = GroupsOf(task_list)
                               /\ dl' = [t \in 1..Len(task_list) |->
                                            [st |-> "none", q |-> 0, f |-> 0,
                                             bad |-> FALSE, lost |-> FALSE]]
                               /\ successful' = {}
                               /\ dTagged' = {}
                               /\ di' = 0
                               /\ dj' = 0
    /\ UNCHANGED <<disk, partsDirs>>
    /\ UNCHANGED <<planVars, rtVars, callVars, remoteVars, upVars>>

\* download.py lines 146-154: get_task_size of one task: the content-length,
\* or 0 when the request fails.
DProbe ==
    /\ dpc = "sizing"
    /\ \E t \in 1..Len(tasks), ok \in BOOLEAN :
        /\ tasks[t].size = Unprobed
        /\ Outcome(ok)
        /\ tasks' = [tasks EXCEPT ![t].size =
                        IF ok THEN BytesLen(pages[tasks[t].url].obj) ELSE 0]
    /\ UNCHANGED <<disk, partsDirs, tmpDir, dpc, dRun, groups, dl, successful,
                   dTagged, di, dj, dLog>>
    /\ UNCHANGED <<planVars, rtVars, callVars, remoteVars, upVars>>

RECURSIVE TotalSize(_, _)
TotalSize(task_list, n) ==
    IF n = 0 THEN 0 ELSE task_list[n].size + TotalSize(task_list, n - 1)

SubmitAll(size) == TRUE

\* download.py line 219: if task['size'] > 0.
Submitted(size) == size > 0

\* download.py lines 209-220: with every size known, either nothing is to
\* download or every task of a positive size is submitted to the pool.
DSubmit ==
    /\ dpc = "sizing"
    /\ \A t \in 1..Len(tasks) : tasks[t].size # Unprobed
    /\ IF TotalSize(tasks, Len(tasks)) = 0
       THEN /\ DFinish(disk, partsDirs)
       ELSE /\ dpc' = "downloading"
            /\ dl' = [t \in 1..Len(tasks) |->
                        [st |-> IF Submitted(tasks[t].size) THEN "queued" ELSE "none",
                         q |-> 0, f |-> 0, bad |-> FALSE, lost |-> FALSE]]
            /\ UNCHANGED <<tasks, groups, successful, dTagged, di, dj, tmpDir>>
    /\ UNCHANGED <<disk, partsDirs, dRun, dLog>>
    /\ UNCHANGED <<faults, planVars, rtVars, callVars, remoteVars, upVars>>

DRunning == {t \in 1..Len(dl) : dl[t].st = "running"}

\* download.py lines 84-98: a pool worker starts download_file_multipart of
\* a queued task: an existing final path is a success at once; otherwise
\* the ".parts" directory is made (or found, when another call with the same
\* final path made it) and the parts are submitted to a pool of the call's
\* own.
DStartTask ==
    /\ dpc = "downloading"
    /\ Cardinality(DRunning) < MAX_WORKERS
    /\ \E t \in 1..Len(dl) :
        /\ dl[t].st = "queued"
        /\ IF Exists(tasks[t].path)
           THEN /\ dl' = [dl EXCEPT ![t].st = "ok"]
                /\ successful' = successful \cup {t}
                /\ dLog' = dLog \cup {DEvent("skipped", tasks[t].page_id)}
                /\ UNCHANGED partsDirs
           ELSE /\ dl' = [dl EXCEPT ![t] =
                        [st |-> "running",
                         q |-> CeilDiv(tasks[t].size, DownloadPartSize),
                         f |-> 0, bad |-> FALSE, lost |-> FALSE]]
                /\ partsDirs' = partsDirs \cup {tasks[t].path}
                /\ UNCHANGED <<successful, dLog>>
    /\ UNCHANGED <<disk, tmpDir, dpc, dRun, tasks, groups, dTagged, di, dj>>
    /\ UNCHANGED <<faults, planVars, rtVars, callVars, remoteVars, upVars>>

\* download.py lines 101-115: a worker of the call's pool (MAX_WORKERS
\* workers) takes the next part and sends its Range GET.
DStartPart ==
    /\ dpc = "downloading"
    /\ \E t \in DRunning :
        /\ dl[t].q > 0
        /\ dl[t].f < MAX_WORKERS
        /\ dl' = [dl EXCEPT ![t].q = @ - 1, ![t].f = @ + 1]
        /\ dLog' = dLog \cup {DEvent("fetch", tasks[t].page_id)}
    /\ UNCHANGED <<disk, partsDirs, tmpDir, dpc, dRun, tasks, groups, successful,
                   dTagged, di, dj>>
    /\ UNCHANGED <<faults, planVars, rtVars, callVars, remoteVars, upVars>>

\* download.py lines 102-117: _download_part returns True or False.  The log
\* tells a part that finished after another part of the file had failed.
\* When another call with the same final path has removed the ".parts"
\* directory, the part's file cannot be opened (False) or was opened before
\* (True): either may happen, and the file is gone.
DFinishPart ==
    /\ dpc = "downloading"
    /\ \E t \in DRunning, ok \in BOOLEAN :
        /\ dl[t].f > 0
        /\ IF tasks[t].path \in partsDirs THEN Outcome(ok) ELSE UNCHANGED faults
        /\ dl' = [dl EXCEPT ![t].f = @ - 1, ![t].bad = @ \/ ~ok]
        /\ dLog' = dLog
                \cup (IF ok THEN {} ELSE {DEvent("part_failed", tasks[t].page_id)})
                \cup (IF dl[t].bad THEN {DEvent("after_failure", tasks[t].page_id)}
                      ELSE {})
    /\ UNCHANGED <<disk, partsDirs, tmpDir, dpc, dRun, tasks, groups, successful,
                   dTagged, di, dj>>
    /\ UNCHANGED <<planVars, rtVars, callVars, remoteVars, upVars>>

\* Part failures are not looked at.
IgnorePartFailures(bad) == TRUE

\* download.py lines 100 and 117: download_success after the pool is done.
DownloadSuccess(bad) == ~bad

\* What an IOError while the parts are joined may leave at the final path:
\* no file (open failed) or the first j parts, j < num_parts.
PartialJoins(obj, total_size, part_size) ==
    LET ranges == DownloadRanges(total_size, part_size)
    IN {CatAll([i \in 1..j |-> RangeGet(obj, ranges[i])]) : j \in 0..(Len(ranges) - 1)}

\* What the join may write when another call with the same final path is
\* writing a part file again at that moment: the file without that part.
TornJoins(obj, total_size, part_size) ==
    LET ranges == DownloadRanges(total_size, part_size)
    IN {CatAll([i \in 1..Len(ranges) |->
                    IF i = j THEN <<>> ELSE RangeGet(obj, ranges[i])]) :
            j \in 1..Len(ranges)}

\* download.py lines 119-134: with every part finished, a failed part
\* removes the ".parts" directory and returns False; otherwise the parts are
\* joined at the final path, where an IOError returns False; the ".parts"
\* directory is removed either way.  The directory is shared with the calls
\* that have the same final path: removing it takes their part files away
\* (lost), and a call whose part files are lost opens the final path and
\* fails at the first part it does not find.
DJoin ==
    /\ dpc = "downloading"
    /\ \E t \in DRunning :
        /\ PoolDrained(dl[t].q, dl[t].f)
        /\ partsDirs' = partsDirs \ {tasks[t].path}
        /\ LET obj == pages[tasks[t].url].obj
               shared == {u \in DRunning \ {t} : tasks[u].path = tasks[t].path}
               after(st) == [u \in 1..Len(dl) |->
                               IF u = t THEN [dl[t] EXCEPT !.st = st]
                               ELSE IF u \in shared THEN [dl[u] EXCEPT !.lost = TRUE]
                               ELSE dl[u]]
               torn == IF \E u \in shared : dl[u].f > 0
                       THEN TornJoins(obj, tasks[t].size, DownloadPartSize)
                       ELSE {}
           IN IF ~DownloadSuccess(dl[t].bad)
              THEN /\ dl' = after("failed")
                   /\ UNCHANGED <<disk, successful, dLog, faults>>
              ELSE IF dl[t].lost
              THEN /\ \E part \in PartialJoins(obj, tasks[t].size, DownloadPartSize) :
                        disk' = WriteFile(disk, tasks[t].path, part)
                   /\ dl' = after("failed")
                   /\ dLog' = dLog \cup {DEvent("join_failed", tasks[t].page_id)}
                   /\ UNCHANGED <<successful, faults>>
              ELSE \E io_ok \in BOOLEAN :
                    IF io_ok
                    THEN /\ UNCHANGED faults
                         /\ \E bytes \in {JoinParts(obj, tasks[t].size, DownloadPartSize)}
                                            \cup torn :
                                disk' = WriteFile(disk, tasks[t].path, bytes)
                         /\ dl' = after("ok")
                         /\ successful' = successful \cup {t}
                         /\ dLog' = dLog \cup {DEvent("joined", tasks[t].page_id)}
                    ELSE /\ Failures(1)
                         /\ \/ UNCHANGED disk
                            \/ \E part \in PartialJoins(obj, tasks[t].size,
                                                        DownloadPartSize) :
                                disk' = WriteFile(disk, tasks[t].path, part)
                         /\ dl' = after("failed")
                         /\ dLog' = dLog \cup {DEvent("join_failed", tasks[t].page_id)}
                         /\ UNCHANGED successful
    /\ UNCHANGED <<tmpDir, dpc, dRun, tasks, groups, dTagged, di, dj>>
    /\ UNCHANGED <<planVars, rtVars, callVars, remoteVars, upVars>>

\* The results are not waited for.
DownloadsNotAwaited(calls) == TRUE

\* download.py lines 217-228: the with-block of the pool and the loop over
\* as_completed end when every submitted call has returned.
DownloadsReturned(calls) ==
    \A t \in 1..Len(calls) : calls[t].st \in {"none", "ok", "failed"}

\* download.py lines 218-232: the pool's with-block ends when every
\* submitted call has returned.
DDownloadsDone ==
    /\ dpc = "downloading"
    /\ DownloadsReturned(dl)
    /\ dpc' = "tagging"
    /\ UNCHANGED <<disk, partsDirs, tmpDir, dRun, tasks, groups, dl, successful,
                   dTagged, di, dj, dLog>>
    /\ UNCHANGED <<faults, planVars, rtVars, callVars, remoteVars, upVars>>

\* update_page_tags returns only when the PATCH succeeded.
ReturnsOnlyIfOk(ok) == ok

\* download.py lines 77-82: the PATCH is inside a try whose except clause
\* reports the failure: update_page_tags returns whether the PATCH succeeded
\* (ok) or not.
TagUpdateReturns(ok) == TRUE

\* download.py lines 58-82: update_page_tags: nothing is sent when the tag
\* set would not change; a PATCH that fails (~ok) is only reported.
UpdatePageTags(page_id, current_tags, ok) ==
    LET new_tags == NewTags(current_tags, TagDownloaded)
    IN IF ~NeedsPatch(current_tags, new_tags)
       THEN ok /\ UNCHANGED <<pages, dLog, faults>>
       ELSE /\ Outcome(ok)
            /\ IF ok
               THEN /\ pages' = [pages EXCEPT ![page_id].tags = PatchedTags(new_tags)]
                    /\ dLog' = dLog \cup {DEvent("patch", page_id),
                                          DEvent("patched", page_id)}
               ELSE /\ dLog' = dLog \cup {DEvent("patch", page_id)}
                    /\ UNCHANGED pages

\* download.py line 233: is_chunk.
IsChunkTask(t) ==
    \E g \in 1..Len(groups) :
        \E m \in 1..Len(groups[g].members) : tasks[groups[g].members[m]] = tasks[t]

\* download.py lines 232-238: the next successful task (they are in the
\* order they completed in, which is any order) gets its tags updated unless
\* it is a chunk; after the last one the groups are next.
DTagNext ==
    /\ dpc = "tagging"
    /\ IF dTagged = successful
       THEN /\ dpc' = "reassembling"
            /\ di' = 1
            /\ UNCHANGED <<pages, dLog, faults, dTagged>>
            /\ UNCHANGED <<tmpDir, tasks, groups, dl, successful, dj>>
       ELSE \E t \in successful \ dTagged, ok \in BOOLEAN :
            IF IsChunkTask(t)
            THEN /\ ok
                 /\ dTagged' = dTagged \cup {t}
                 /\ UNCHANGED <<pages, dLog, faults, dpc, di>>
                 /\ UNCHANGED <<tmpDir, tasks, groups, dl, successful, dj>>
            ELSE /\ UpdatePageTags(tasks[t].page_id, tasks[t].tags, ok)
                 /\ IF TagUpdateReturns(ok)
                    THEN /\ dTagged' = dTagged \cup {t}
                         /\ UNCHANGED <<dpc, di>>
                         /\ UNCHANGED <<tmpDir, tasks, groups, dl, successful, dj>>
                    ELSE DFinish(disk, partsDirs)
    /\ UNCHANGED <<disk, partsDirs, dRun>>
    /\ UNCHANGED <<planVars, rtVars, callVars, sessions, upVars>>

\* What an IOError while the fragments are joined may leave at the final
\* path: the file as it was (open failed) or the first j fragments.
PartialReconstructs(chunk_paths, files) ==
    LET copied == ReadableFragments(chunk_paths, files)
    IN {CatAll([i \in 1..j |-> files[copied[i]]]) : j \in 0..(Len(copied) - 1)}

HasDuplicates(seq) == \E i, j \in 1..Len(seq) : i # j /\ seq[i] = seq[j]

\* Some fragment of the group is on disk.
AnyFragmentExists(chunk_paths) ==
    \E m \in 1..Len(chunk_paths) : Exists(chunk_paths[m])

\* download.py line 242: all(os.path.exists(p) for p in chunk_paths)
AllFragmentsExist(chunk_paths) ==
    \A m \in 1..Len(chunk_paths) : Exists(chunk_paths[m])

\* A group's events carry the page id of the group's first record.
GroupId(g) == tasks[g.members[1]].page_id

\* download.py lines 238-251 and 136-144: the next group of chunk_files_info.
\* With every fragment on disk the final file is written and the fragments
\* are removed; an IOError, the open() of a missing fragment, or the second
\* os.remove of a path listed twice, raises out of main().  A group with a
\* missing fragment is only reported.  After the last group main() ends.
DReassemble ==
    /\ dpc = "reassembling"
    /\ IF di > Len(groups)
       THEN /\ DFinish(disk, partsDirs)
            /\ UNCHANGED <<disk, dLog, faults>>
       ELSE LET g == groups[di]
                chunk_paths == [m \in 1..Len(g.members) |-> tasks[g.members[m]].path]
                final_path == FinalPath(g.filename)
                path_set == {chunk_paths[m] : m \in 1..Len(chunk_paths)}
            IN IF AllFragmentsExist(chunk_paths)
               THEN \E io_ok \in BOOLEAN :
                    /\ Outcome(io_ok)
                    /\ IF io_ok
                       THEN LET written == WriteFile(disk, final_path,
                                               Reconstruct(chunk_paths, disk))
                                after == RemoveFiles(written, path_set)
                            IN IF Len(ReadableFragments(chunk_paths, disk))
                                    < Len(chunk_paths)
                               THEN /\ disk' = written
                                    /\ DFinish(written, partsDirs)
                                    /\ dLog' = dLog \cup
                                           {DEvent("reconstruct_failed", GroupId(g))}
                               ELSE IF HasDuplicates(chunk_paths)
                               THEN /\ disk' = after
                                    /\ DFinish(after, partsDirs)
                                    /\ dLog' = dLog \cup
                                           {DEvent("remove_failed", GroupId(g))}
                               ELSE /\ disk' = after
                                    /\ dpc' = "grouptags"
                                    /\ dj' = 1
                                    /\ dLog' = dLog \cup
                                           {DEvent("reassembled", GroupId(g))}
                                    /\ UNCHANGED <<tmpDir, tasks, groups, dl,
                                                   successful, dTagged, di>>
                       ELSE /\ \/ UNCHANGED disk
                               \/ \E part \in PartialReconstructs(chunk_paths, disk) :
                                    disk' = WriteFile(disk, final_path, part)
                            /\ DFinish(disk, partsDirs)
                            /\ dLog' = dLog \cup
                                   {DEvent("reconstruct_failed", GroupId(g))}
               ELSE /\ di' = di + 1
                    /\ dLog' = dLog \cup {DEvent("incomplete", GroupId(g))}
                    /\ UNCHANGED <<disk, tmpDir, dpc, tasks, groups, dl, successful,
                                   dTagged, dj, faults>>
    /\ UNCHANGED <<partsDirs, dRun>>
    /\ UNCHANGED <<planVars, rtVars, callVars, remoteVars, upVars>>

\* download.py lines 247-249: the tags of the next record of the group just
\* reconstructed; after the last one the next group is looked at.
DGroupTag ==
    /\ dpc = "grouptags"
    /\ LET members == groups[di].members
       IN IF dj > Len(members)
          THEN /\ dpc' = "reassembling"
               /\ di' = di + 1
               /\ dj' = 0
               /\ UNCHANGED <<pages, dLog, faults>>
               /\ UNCHANGED <<tmpDir, tasks, groups, dl, successful, dTagged>>
          ELSE \E ok \in BOOLEAN :
               /\ UpdatePageTags(tasks[members[dj]].page_id, tasks[members[dj]].tags, ok)
               /\ IF TagUpdateReturns(ok)
                  THEN /\ dj' = dj + 1
                       /\ UNCHANGED <<dpc, di>>
                       /\ UNCHANGED <<tmpDir, tasks, groups, dl, successful, dTagged>>
                  ELSE DFinish(disk, partsDirs)
    /\ UNCHANGED <<disk, partsDirs, dRun>>
    /\ UNCHANGED <<planVars, rtVars, callVars, sessions, upVars>>

\* ---------------------------------------------------- the planner's runs

\* The (totalSize, unitSize) pairs the planner is tried on: every small
\* pair, and the 25 MiB / 10 MiB scenario.
PlanInputs ==
    ((0..MaxPlanTotal) \X (1..MaxPlanUnit))
        \cup {<<25 * 1024 * 1024, DownloadPartSize>>}

PlanDownloadParts ==
    /\ planKind = "none"
    /\ planKind' = "download_parts"
    /\ planRanges' = DownloadRanges(planTotal, planUnit)
    /\ UNCHANGED <<planTotal, planUnit>>
    /\ UNCHANGED <<faults, rtVars, callVars, remoteVars, upVars, downVars>>

PlanUploadChunks ==
    /\ planKind = "none"
    /\ planKind' = "upload_chunks"
    /\ planRanges' = UploadChunkRanges(planTotal, planUnit)
    /\ UNCHANGED <<planTotal, planUnit>>
    /\ UNCHANGED <<faults, rtVars, callVars, remoteVars, upVars, downVars>>

PlanUploadParts ==
    /\ planKind = "none"
    /\ planKind' = "upload_parts"
    /\ planRanges' = UploadPartRanges(planTotal, planUnit)
    /\ UNCHANGED <<planTotal, planUnit>>
    /\ UNCHANGED <<faults, rtVars, callVars, remoteVars, upVars, downVars>>

NextPlan == PlanDownloadParts \/ PlanUploadChunks \/ PlanUploadParts

IdlePlan ==
    /\ planKind = "none"
    /\ planTotal = 0
    /\ planUnit = 1
    /\ planRanges = <<>>

IdleRoundTrip ==
    /\ rtIn = <<>>
    /\ rtPc = "off"

IdleCall ==
    /\ callPc = "off"
    /\ callIn = <<>>
    /\ callOut = <<>>

\* --------------------------------------------------------- specifications

IdleRemote ==
    /\ sessions = <<>>
    /\ pages = <<>>

IdleDownload ==
    /\ disk = <<>>
    /\ partsDirs = {}
    /\ tmpDir = FALSE
    /\ dpc = "idle"
    /\ dRun = 0
    /\ tasks = <<>>
    /\ groups = <<>>
    /\ dl = <<>>
    /\ successful = {}
    /\ dTagged = {}
    /\ di = 0
    /\ dj = 0
    /\ dLog = {}

\* The range planner alone, on every input of PlanInputs.
InitPlan ==
    /\ planKind = "none"
    /\ \E in \in PlanInputs : planTotal = in[1] /\ planUnit = in[2]
    /\ planRanges = <<>>
    /\ faults = 0
    /\ IdleRemote
    /\ IdleUpload
    /\ IdleDownload
    /\ IdleRoundTrip
    /\ IdleCall

SpecPlan == InitPlan /\ [][NextPlan]_vars

\* The upload script, run up to MaxUploadRuns times on a source folder.
InitUp ==
    /\ IdlePlan
    /\ IdleRoundTrip
    /\ IdleCall
    /\ faults = 0
    /\ IdleRemote
    /\ IdleDownload
    /\ folder \in UploadFolders
    /\ uploaded = {}
    /\ upc = "idle"
    /\ upRun = 0
    /\ upTodo = {}
    /\ upFile = <<>>
    /\ upChunk = 0
    /\ upParts = <<>>
    /\ upLog = {}

NextUp ==
    \/ UpStartRun
    \/ UpNextFile
    \/ UpEndRun
    \/ UpCreateSession
    \/ UpStartPart
    \/ UpFinishPart
    \/ UpPartsDone
    \/ UpComplete
    \/ UpCreatePage

SpecUp == InitUp /\ [][NextUp]_vars


\* The download script, run up to MaxDownloadRuns times on a database, into
\* an empty download folder.
InitDown ==
    /\ IdlePlan
    /\ IdleRoundTrip
    /\ IdleCall
    /\ IdleUpload
    /\ faults = 0
    /\ sessions = <<>>
    /\ pages \in Databases
    /\ disk = <<>>
    /\ partsDirs = {}
    /\ tmpDir = FALSE
    /\ dpc = "idle"
    /\ dRun = 0
    /\ tasks = <<>>
    /\ groups = <<>>
    /\ dl = <<>>
    /\ successful = {}
    /\ dTagged = {}
    /\ di = 0
    /\ dj = 0
    /\ dLog = {}

NextDown ==
    \/ DStartRun
    \/ DProbe
    \/ DSubmit
    \/ DStartTask
    \/ DStartPart
    \/ DFinishPart
    \/ DJoin
    \/ DDownloadsDone
    \/ DTagNext
    \/ DReassemble
    \/ DGroupTag

SpecDown == InitDown /\ [][NextDown]_vars

\* ------------------------------------------------------- the round trip

\* The files and caps the round trip is tried on: every small combination,
\* the program's own caps with a file one byte over the chunk cap, and a
\* file of ManyChunks chunks.
RTInputs ==
    [name : {NameA, NameB}, size : 1..MaxRTSize, cap : 1..MaxRTCap,
     part_cap : 1..MaxRTPart, dl_part : 1..MaxRTPart]
    \cup {[name |-> NameB, size |-> MAX_FILE_SIZE + 1, cap |-> MAX_FILE_SIZE,
           part_cap |-> PART_SIZE, dl_part |-> DownloadPartSize],
          [name |-> NameA, size |-> ManyChunks, cap |-> 1,
           part_cap |-> 1, dl_part |-> 1]}

\* download.py lines 171-212 when every request succeeds: the tasks of the
\* pending records whose description matches, each with its size.
ListAll(ps) ==
    Bind(SelectSeq([i \in 1..Len(ps) |-> i], LAMBDA i :
             IsPending(ps[i]) /\ ParseDescription(ps[i].desc).match),
         LAMBDA listed :
             [r \in 1..Len(listed) |->
                 [TaskInfo(listed[r], ps[listed[r]]) EXCEPT
                     !.size = BytesLen(ps[listed[r]].obj)]])

\* download.py lines 216-228 when every request and every write succeeds:
\* the files in the download folder after the download phase, which started
\* from the files given.
FetchAll(task_list, ps, files, part_size) ==
    LET fetched == {t \in 1..Len(task_list) :
                        task_list[t].size > 0 /\ task_list[t].path \notin DOMAIN files}
    IN [q \in DOMAIN files \cup {task_list[t].path : t \in fetched} |->
            IF q \in DOMAIN files THEN files[q]
            ELSE Bind(CHOOSE t \in fetched : task_list[t].path = q, LAMBDA t :
                     JoinParts(ps[task_list[t].url].obj, task_list[t].size, part_size))]

\* download.py lines 241-245 when every write succeeds: the files after the
\* group g was looked at.
ReassembleGroup(files, task_list, g) ==
    Bind(Listed([m \in 1..Len(g.members) |-> task_list[g.members[m]].path]),
         LAMBDA chunk_paths :
             IF \A m \in 1..Len(chunk_paths) : chunk_paths[m] \in DOMAIN files
             THEN RemoveFiles(WriteFile(files, FinalPath(g.filename),
                                        Reconstruct(chunk_paths, files)),
                              {chunk_paths[m] : m \in 1..Len(chunk_paths)})
             ELSE files)

\* The upload script runs on the one file of the folder, and nothing fails
\* (upload.py lines 123-222).
RTUpload ==
    /\ rtPc = "source"
    /\ pages' = UploadedPages(rtIn.name, rtIn.size, rtIn.cap, rtIn.part_cap)
    /\ folder' = <<>>
    /\ uploaded' = {rtIn.name}
    /\ rtPc' = "uploaded"
    /\ UNCHANGED <<rtIn, callVars, faults, planVars, sessions, downVars>>
    /\ UNCHANGED <<upc, upRun, upTodo, upFile, upChunk, upParts, upLog>>

\* A user of the database gives every record the pending tag.
RTMarkPending ==
    /\ rtPc = "uploaded"
    /\ pages' = [i \in 1..Len(pages) |-> MarkPending(pages[i])]
    /\ rtPc' = "pending"
    /\ UNCHANGED <<rtIn, callVars, faults, planVars, sessions, upVars, downVars>>

\* main() of download.py starts, and nothing fails from here on: the
\* listing and the sizes (download.py lines 158-212).
RTList ==
    /\ rtPc = "pending"
    /\ tasks' = ListAll(pages)
    /\ groups' = GroupsOf(tasks')
    /\ tmpDir' = TRUE
    /\ rtPc' = "listed"
    /\ UNCHANGED <<disk, partsDirs, dpc, dRun, dl, successful, dTagged, di, dj, dLog>>
    /\ UNCHANGED <<rtIn, callVars, faults, planVars, remoteVars, upVars>>

\* download.py lines 216-228: every task is downloaded.
RTFetch ==
    /\ rtPc = "listed"
    /\ disk' = FetchAll(tasks, pages, disk, rtIn.dl_part)
    /\ di' = 1
    /\ rtPc' = "fetched"
    /\ UNCHANGED <<partsDirs, tmpDir, dpc, dRun, tasks, groups, dl, successful,
                   dTagged, dj, dLog>>
    /\ UNCHANGED <<rtIn, callVars, faults, planVars, remoteVars, upVars>>

\* download.py lines 238-245: the next group is reassembled.
RTReassemble ==
    /\ rtPc = "fetched"
    /\ IF di > Len(groups)
       THEN /\ rtPc' = "reassembled"
            /\ UNCHANGED <<disk, di>>
       ELSE /\ disk' = ReassembleGroup(disk, tasks, groups[di])
            /\ di' = di + 1
            /\ UNCHANGED rtPc
    /\ UNCHANGED <<partsDirs, tmpDir, dpc, dRun, tasks, groups, dl, successful,
                   dTagged, dj, dLog>>
    /\ UNCHANGED <<rtIn, callVars, faults, planVars, remoteVars, upVars>>

\* download.py lines 232-258: the tags of every task's record are updated
\* (every file and every group was completed), and main() ends.
RTTag ==
    /\ rtPc = "reassembled"
    /\ pages' = [i \in 1..Len(pages) |->
            IF \E t \in 1..Len(tasks) : tasks[t].page_id = i
            THEN [pages[i] EXCEPT !.tags =
                    PatchedTags(NewTags(pages[i].tags, TagDownloaded))]
            ELSE pages[i]]
    /\ DFinish(disk, partsDirs)
    /\ rtPc' = "downloaded"
    /\ UNCHANGED <<disk, partsDirs, dRun, dLog>>
    /\ UNCHANGED <<rtIn, callVars, faults, planVars, sessions, upVars>>

InitRT ==
    /\ IdlePlan
    /\ IdleCall
    /\ faults = 0
    /\ IdleRemote
    /\ IdleDownload
    /\ rtIn \in RTInputs
    /\ rtPc = "source"
    /\ folder = (rtIn.name :> rtIn.size)
    /\ uploaded = {}
    /\ upc = "idle"
    /\ upRun = 0
    /\ upTodo = {}
    /\ upFile = <<>>
    /\ upChunk = 0
    /\ upParts = <<>>
    /\ upLog = {}

NextRT == RTUpload \/ RTMarkPending \/ RTList \/ RTFetch \/ RTReassemble \/ RTTag

SpecRT == InitRT /\ [][NextRT]_vars

\* ------------------------------------------- the description on its own

\* Largest file size and chunk cap the description is written for.
MaxDescSize == 12
MaxDescCap == 3

\* A name that holds the words of a description, and a name with a line
\* break in it.
NameWords ==
    <<"a", " ", "(", "c", "h", "u", "n", "k", " ", "1", " ", "o", "f", " ", "2",
      ")", ".", "m", "p", "4">>
NameLines == <<"a", "\n", "b", ".", "m", "p", "4">>

\* The files whose chunks are described: every small size and cap, and a
\* file of three chunks under the program's cap.
DescInputs ==
    { in \in [name : {NameA, NameB, NameWords, NameLines}, size : 1..MaxDescSize,
              cap : 1..MaxDescCap, k : 1..MaxDescSize] :
        in.k <= CeilDiv(in.size, in.cap) }
    \cup [name : {NameB}, size : {2 * MAX_FILE_SIZE + PART_SIZE},
          cap : {MAX_FILE_SIZE}, k : 1..3]

\* The rest of the program does nothing while one function is called.
CallFrame == UNCHANGED <<planVars, faults, remoteVars, upVars, downVars, rtVars>>

\* upload.py lines 144 and 205-211, 89: the description of the record of
\* chunk k (1-based) of the file.
DescWrite ==
    /\ callPc = "desc_in"
    /\ callOut' = [desc |-> NewPage(NotionFilename(callIn.name), callIn.name, callIn.k,
                                    CeilDiv(callIn.size, callIn.cap), <<>>).desc]
    /\ callPc' = "desc_written"
    /\ UNCHANGED callIn
    /\ CallFrame

\* download.py lines 175-179: the description is matched and its groups are
\* converted.
DescParse ==
    /\ callPc = "desc_written"
    /\ callOut' = [desc |-> callOut.desc, parsed |-> ParseDescription(callOut.desc)]
    /\ callPc' = "desc_parsed"
    /\ UNCHANGED callIn
    /\ CallFrame

InitDesc ==
    /\ IdlePlan
    /\ IdleRoundTrip
    /\ faults = 0
    /\ IdleRemote
    /\ IdleUpload
    /\ IdleDownload
    /\ callIn \in DescInputs
    /\ callPc = "desc_in"
    /\ callOut = <<>>

NextDesc == DescWrite \/ DescParse

SpecDesc == InitDesc /\ [][NextDesc]_vars

\* ------------------------------------------ update_page_tags on its own

\* The longest tag list update_page_tags is called with.
MaxTags == 3

TagOther == "other"

\* The tag lists of a record as the database returns them.
RECURSIVE TagLists(_)
TagLists(n) ==
    IF n = 0 THEN {<<>>}
    ELSE TagLists(n - 1) \cup
         {Append(l, RemoteTag(name)) :
            l \in {k \in TagLists(n - 1) : Len(k) = n - 1},
            name \in {TagPython, TagPending, TagDownloaded, TagOther}}

\* download.py lines 70-76: what a call of update_page_tags on current_tags
\* puts into the payload of its PATCH; no payload when it returns early.
SentTags(current_tags) ==
    LET new_tags == NewTags(current_tags, TagDownloaded)
    IN [current |-> current_tags,
        patch |-> NeedsPatch(current_tags, new_tags),
        sent |-> IF NeedsPatch(current_tags, new_tags) THEN new_tags ELSE <<>>]

\* download.py lines 58-82: update_page_tags(page_id, current_tags, ...) is
\* called once for the one record of the database.
TagCall ==
    /\ callPc = "tags_in"
    /\ \E ok \in BOOLEAN : UpdatePageTags(1, callIn, ok)
    /\ callPc' = "tags_called"
    /\ callOut' = SentTags(callIn)
    /\ UNCHANGED callIn
    /\ UNCHANGED <<planVars, sessions, upVars, rtVars>>
    /\ UNCHANGED <<disk, partsDirs, tmpDir, dpc, dRun, tasks, groups, dl, successful,
                   dTagged, di, dj>>

\* download.py lines 58-82: a later call of update_page_tags for the same
\* record, with the tags the record has by then.
TagRecall ==
    /\ callPc = "tags_called"
    /\ \E ok \in BOOLEAN : UpdatePageTags(1, pages[1].tags, ok)
    /\ callPc' = "tags_recalled"
    /\ callOut' = SentTags(pages[1].tags)
    /\ UNCHANGED callIn
    /\ UNCHANGED <<planVars, sessions, upVars, rtVars>>
    /\ UNCHANGED <<disk, partsDirs, tmpDir, dpc, dRun, tasks, groups, dl, successful,
                   dTagged, di, dj>>

InitTags ==
    /\ IdlePlan
    /\ IdleRoundTrip
    /\ faults = 0
    /\ IdleUpload
    /\ IdleDownload
    /\ callIn \in TagLists(MaxTags)
    /\ callPc = "tags_in"
    /\ callOut = <<>>
    /\ sessions = <<>>
    /\ pages = <<[title |-> NameA, desc |-> DescriptionText(NameA, 1, 1),
                  tags |-> callIn, obj |-> FileBytes(NameA, 1)]>>

NextTags == TagCall \/ TagRecall

SpecTags == InitTags /\ [][NextTags]_vars

\* ------------------------------------------------------- either script

\* One of the two scripts is run and the other is not: the upload script on
\* a source folder, or the download script on a database into an empty
\* download folder.
InitScripts ==
    /\ IdlePlan
    /\ IdleRoundTrip
    /\ IdleCall
    /\ faults = 0
    /\ sessions = <<>>
    /\ uploaded = {}
    /\ upc = "idle"
    /\ upTodo = {}
    /\ upFile = <<>>
    /\ upChunk = 0
    /\ upParts = <<>>
    /\ upLog = {}
    /\ disk = <<>>
    /\ partsDirs = {}
    /\ tmpDir = FALSE
    /\ dpc = "idle"
    /\ tasks = <<>>
    /\ groups = <<>>
    /\ dl = <<>>
    /\ successful = {}
    /\ dTagged = {}
    /\ di = 0
    /\ dj = 0
    /\ dLog = {}
    /\ \/ /\ folder \in UploadFolders
          /\ pages = <<>>
          /\ upRun = 0
          /\ dRun = MaxDownloadRuns
       \/ /\ folder = <<>>
          /\ pages \in Databases
          /\ upRun = MaxUploadRuns
          /\ dRun = 0

NextScripts ==
    \/ UpStartRun
    \/ UpNextFile
    \/ UpEndRun
    \/ UpCreateSession
    \/ UpStartPart
    \/ UpFinishPart
    \/ UpPartsDone
    \/ UpComplete
    \/ UpCreatePage
    \/ DStartRun
    \/ DProbe
    \/ DSubmit
    \/ DStartTask
    \/ DStartPart
    \/ DFinishPart
    \/ DJoin
    \/ DDownloadsDone
    \/ DTagNext
    \/ DReassemble
    \/ DGroupTag

SpecScripts == InitScripts /\ [][NextScripts]_vars

\* ---------------------------------------- records with one description

\* A database in which two pending records carry the same description (the
\* upload script makes such records when a run is repeated after a failure),
\* beside a two-chunk file.
DupDatabases ==
    { [i \in 1..4 |-> MarkPending(
          (UploadedPages(NameA, DownloadPartSize + 1, MAX_FILE_SIZE, PART_SIZE)
           \o UploadedPages(NameA, DownloadPartSize + 1, MAX_FILE_SIZE, PART_SIZE)
           \o UploadedPages(NameB, 3, 2, 1))[i])] }

InitDup ==
    /\ IdlePlan
    /\ IdleRoundTrip
    /\ IdleCall
    /\ IdleUpload
    /\ IdleDownload
    /\ faults = 0
    /\ sessions = <<>>
    /\ pages \in DupDatabases

SpecDup == InitDup /\ [][NextDown]_vars

\* ------------------------------------------------- claims on the planner

\* C2: the planned ranges number ceil(totalSize/unitSize); the first starts
\* at 0, each next one starts at the previous end + 1, every range has a
\* length between 1 and unitSize, the last ends at totalSize - 1; totalSize 0
\* gives no range; 26214400 by 10485760 gives the three ranges of the spec.
RangePlanIsExact ==
    planKind # "none" =>
        /\ Len(planRanges) * planUnit >= planTotal
        /\ (Len(planRanges) - 1) * planUnit < planTotal \/ planTotal = 0
        /\ planTotal = 0 => planRanges = <<>>
        /\ planTotal > 0 =>
            /\ planRanges[1][1] = 0
            /\ planRanges[Len(planRanges)][2] = planTotal - 1
        /\ \A i \in 1..Len(planRanges) :
            /\ planRanges[i][2] - planRanges[i][1] + 1 \in 1..planUnit
            /\ i > 1 => planRanges[i][1] = planRanges[i - 1][2] + 1
        /\ (planTotal = 26214400 /\ planUnit = 10485760) =>
            planRanges = << <<0, 10485759>>, <<10485760, 20971519>>,
                            <<20971520, 26214399>> >>

\* A plan with a partial last range has been made (the 25 MiB scenario).
RangePlanWitness ==
    /\ planKind = "download_parts"
    /\ planTotal = 26214400
    /\ planUnit = 10485760
    /\ Len(planRanges) = 3


\* ------------------------------------------------------ claims on upload

\* Whether the upload script is inside the chunk loop of file f in run r.
UpInProgress(r, f) ==
    upRun = r /\ upFile = f /\ upc \in {"session", "parts", "finalize", "record"}

UpRunOver(r) == upRun > r \/ (upRun = r /\ upc = "idle")

UpChunkComplete(r, f, k) ==
    /\ Event("session", r, f, k) \in upLog
    /\ Event("parts_sent", r, f, k) \in upLog
    /\ Event("finalized", r, f, k) \in upLog
    /\ Event("record", r, f, k) \in upLog

\* C4: if a part of chunk i of a file fails to send, the session of chunk i
\* is never finalized, no record is created for chunk i or a later chunk of
\* the file in that run, the file is not moved and stays in the source
\* folder, and every other entry listed in that run is still visited.
UploadPartFailureAbortsFile ==
    \A e \in upLog :
        e.ev = "part_failed" =>
            /\ Event("finalized", e.run, e.file, e.chunk) \notin upLog
            /\ \A e2 \in upLog :
                (e2.ev = "record" /\ e2.run = e.run /\ e2.file = e.file)
                    => e2.chunk < e.chunk
            /\ Event("moved", e.run, e.file, 0) \notin upLog
            /\ upRun = e.run => (e.file \in DOMAIN folder /\ e.file \notin uploaded)
            /\ UpRunOver(e.run) =>
                \A e3 \in upLog :
                    (e3.ev = "listed" /\ e3.run = e.run)
                        => Event("visited", e.run, e3.file, 0) \in upLog

\* A run is over in which a part of a.mp4 failed and b.MKV was uploaded.
UploadPartFailureWitness ==
    /\ UpRunOver(1)
    /\ \E k \in 1..2 : Event("part_failed", 1, NameA, k) \in upLog
    /\ Event("record", 1, NameB, 1) \in upLog
    /\ NameA \in DOMAIN folder

\* C5: a file is moved to the completed folder in a run iff in that run
\* every chunk 1..N of it had its session created, all parts sent, the
\* session finalized and the record created, with N >= 1.
MovedIffAllChunksComplete ==
    \A e \in upLog :
        (e.ev = "visited" /\ ~UpInProgress(e.run, e.file)) =>
            LET n == IF SourceSize[e.file] = IsDir THEN 0
                     ELSE CeilDiv(SourceSize[e.file], MAX_FILE_SIZE)
            IN (Event("moved", e.run, e.file, 0) \in upLog)
                <=> (n >= 1 /\ IsVideo(e.file)
                     /\ \A k \in 1..n : UpChunkComplete(e.run, e.file, k))

\* The two-chunk file c.mp4 was moved in the second run, after the first
\* run recorded chunk 1 and failed on chunk 2; the empty file was visited.
MovedWitness ==
    /\ Event("moved", 2, NameC, 0) \in upLog
    /\ Event("record", 1, NameC, 1) \in upLog
    /\ Event("moved", 1, NameC, 0) \notin upLog
    /\ NameC \in uploaded /\ NameC \notin DOMAIN folder

\* C8 as stated: across the runs at most one remote record exists for each
\* (original filename, chunk index) pair.
AtMostOneRecordPerChunk ==
    \A i, j \in 1..Len(pages) : i # j => pages[i].desc # pages[j].desc


\* ---------------------------------------------------- claims on download

\* The destination paths of the fragments registered in group g.
GroupFragmentPaths(g) == {tasks[g.members[m]].path : m \in 1..Len(g.members)}

GroupComplete(g) == GroupFragmentPaths(g) \subseteq DOMAIN disk

\* The groups the task of page i is registered in.
GroupsWith(i) ==
    {k \in 1..Len(groups) :
        \E m \in 1..Len(groups[k].members) : tasks[groups[k].members[m]].page_id = i}

\* C3: in the reassembly phase a group is concatenated only if every
\* fragment registered in it is on disk; when one is missing the step writes
\* no file, deletes none, and updates no tag, and only reports the group;
\* the tags of a group's record are sent only after the group was
\* concatenated in the same run.
ReassemblyIsAtomic ==
    [][ /\ (dpc = "reassembling" /\ di \in 1..Len(groups)
                /\ ~GroupComplete(groups[di]))
            => /\ disk' = disk
               /\ pages' = pages
               /\ dLog' = dLog \cup {DEvent("incomplete", GroupId(groups[di]))}
               /\ dpc' = "reassembling"
               /\ di' = di + 1
        /\ \A e \in dLog' \ dLog :
            /\ e.ev = "reassembled" =>
                (dpc = "reassembling" /\ GroupComplete(groups[di]))
            /\ (e.ev = "patch" /\ GroupsWith(e.id) # {}) =>
                \E k \in GroupsWith(e.id) :
                    DEvent("reassembled", GroupId(groups[k])) \in dLog
      ]_vars

\* A group was reported incomplete with one fragment on disk and another
\* missing; its fragment is still there and there is no final file.
ReassemblyWitness ==
    /\ dpc = "reassembling"
    /\ \E k \in 1..Len(groups) :
        /\ k < di
        /\ DEvent("incomplete", GroupId(groups[k])) \in dLog
        /\ GroupFragmentPaths(groups[k]) \cap DOMAIN disk # {}
        /\ ~GroupComplete(groups[k])
        /\ FinalPath(groups[k].filename) \notin DOMAIN disk

\* C6 as stated: a second run against the same pending records, after a
\* first run that completed every download and every reassembly, sends no
\* part fetch.
FirstRunComplete ==
    /\ \A i \in 1..Len(pages) :
        (IsPending(pages[i]) /\ ParseDescription(pages[i].desc).match) =>
            [ev |-> "joined", run |-> 1, id |-> i] \in dLog
    /\ \A e \in dLog :
        e.run = 1 => e.ev \notin {"query_failed", "part_failed", "join_failed",
                                  "reconstruct_failed", "remove_failed", "incomplete"}

SecondRunFetchesNothing ==
    (dRun = 2 /\ FirstRunComplete /\ \A e \in dLog : e.ev # "patched") =>
        \A e \in dLog : ~(e.ev = "fetch" /\ e.run = 2)

\* The same for the databases without a multi-record file.
SecondRunFetchesNoSingleFile ==
    (dRun = 2 /\ FirstRunComplete /\ (\A e \in dLog : e.ev # "patched")
        /\ \A i \in 1..Len(pages) :
            ParseDescription(pages[i].desc).match =>
                ParseDescription(pages[i].desc).total_chunks = 1) =>
        \A e \in dLog : ~(e.ev = "fetch" /\ e.run = 2)

\* The part fetches in flight, over the first n tasks.
RECURSIVE FetchesInFlight(_)
FetchesInFlight(n) == IF n = 0 THEN 0 ELSE dl[n].f + FetchesInFlight(n - 1)

\* C7 as stated: the part fetches in flight, summed over all candidates,
\* are at most MAX_WORKERS.
GlobalFetchBound == FetchesInFlight(Len(dl)) <= MAX_WORKERS

\* The part fetches in flight of one candidate are at most MAX_WORKERS, and
\* at most MAX_WORKERS candidates are being downloaded.
PerCandidateFetchBound ==
    /\ \A t \in 1..Len(dl) : dl[t].f <= MAX_WORKERS
    /\ Cardinality(DRunning) <= MAX_WORKERS

\* The events of the current run about the record of page i.
FailedOwnDownload(i) ==
    DEvent("part_failed", i) \in dLog \/ DEvent("join_failed", i) \in dLog

SameFile(i, j) ==
    ParseDescription(pages[i].desc).original_filename
        = ParseDescription(pages[j].desc).original_filename

IsChunkRecord(i) == ParseDescription(pages[i].desc).total_chunks # 1

HasFile(i) == DEvent("joined", i) \in dLog \/ DEvent("skipped", i) \in dLog

ListedNow == {i \in 1..Len(pages) : DEvent("listed", i) \in dLog}

\* C10 as stated: at the end of a run in which the concatenation of one file
\* failed with an IO error, every other single-record candidate that was
\* downloaded had its tag update sent, and every other group whose
\* fragments were all downloaded was concatenated.
LocalIOFailureIsContained ==
    (dpc = "idle" /\ dRun > 0) =>
        \A e \in dLog :
            (e.run = dRun /\ e.ev \in {"join_failed", "reconstruct_failed"}) =>
                \A i \in ListedNow \ {e.id} :
                    /\ (~IsChunkRecord(i) /\ HasFile(i))
                        => DEvent("patch", i) \in dLog
                    /\ (IsChunkRecord(i) /\ ~SameFile(i, e.id)
                            /\ \A j \in ListedNow : SameFile(i, j) => HasFile(j))
                        => \E j \in ListedNow :
                            SameFile(i, j) /\ DEvent("reassembled", j) \in dLog

\* The same for an IO error while the parts of a candidate are joined.
JoinIOFailureIsContained ==
    (dpc = "idle" /\ dRun > 0
        /\ \A e \in dLog : e.run = dRun =>
            e.ev \notin {"reconstruct_failed", "remove_failed"}) =>
        \A e \in dLog :
            (e.run = dRun /\ e.ev = "join_failed") =>
                \A i \in ListedNow \ {e.id} :
                    /\ (~IsChunkRecord(i) /\ HasFile(i))
                        => DEvent("patch", i) \in dLog
                    /\ (IsChunkRecord(i) /\ ~SameFile(i, e.id)
                            /\ \A j \in ListedNow : SameFile(i, j) => HasFile(j))
                        => \E j \in ListedNow :
                            SameFile(i, j) /\ DEvent("reassembled", j) \in dLog

\* -------------------------------------------------- claims on the round trip

\* C1 as stated: after an upload and a download in which nothing failed, the
\* download folder holds, under the original filename, a file whose bytes
\* are the original file's.
RoundTripIsIdentity ==
    rtPc = "downloaded" =>
        /\ FinalPath(rtIn.name) \in DOMAIN disk
        /\ disk[FinalPath(rtIn.name)] = FileBytes(rtIn.name, rtIn.size)

\* The same for the files of fewer than ManyChunks chunks.
RoundTripBelowManyChunks ==
    (rtPc = "downloaded" /\ CeilDiv(rtIn.size, rtIn.cap) < ManyChunks) =>
        /\ DOMAIN disk = {FinalPath(rtIn.name)}
        /\ disk[FinalPath(rtIn.name)] = FileBytes(rtIn.name, rtIn.size)

\* ------------------------------------------- claims on the description

\* What the description of chunk k of N of the file parses to.
ParsedBack ==
    /\ callOut.parsed.match
    /\ callOut.parsed.original_filename = callIn.name
    /\ callOut.parsed.chunk_num = callIn.k
    /\ callOut.parsed.total_chunks = CeilDiv(callIn.size, callIn.cap)

\* C11 as stated: for every original filename, k and N with 1 <= k <= N, the
\* description written for chunk k of N parses back to (filename, k, N).
DescriptionParsesBack == callPc = "desc_parsed" => ParsedBack

\* The same for the filenames without a line break.
OneLineDescriptionParsesBack ==
    (callPc = "desc_parsed" /\ \A i \in 1..Len(callIn.name) : callIn.name[i] # "\n")
        => ParsedBack

\* ------------------------------------------------ claims on the tags

\* Whether update_page_tags sent a PATCH for the record.
PatchSent == [ev |-> "patch", run |-> 0, id |-> 1] \in dLog

\* C12: update_page_tags sends the PATCH iff the target label set (the
\* current one without the pending tag, with the completed tag added by name
\* when no tag has that name) differs from the current one as a set of
\* (id, name) pairs; with the completed tag and without the pending tag in
\* the current set nothing is sent.
PatchIffLabelsDiffer ==
    callPc = "tags_called" =>
        LET current == {callIn[i] : i \in 1..Len(callIn)}
            completed == \E t \in current : t.name = TagDownloaded
            pending == \E t \in current : t.name = TagPending
            target == {t \in current : t.name # TagPending}
                        \cup (IF completed THEN {}
                              ELSE {[id |-> NoId, name |-> TagDownloaded]})
        IN /\ PatchSent <=> target # current
           /\ (completed /\ ~pending) => (~PatchSent /\ pages[1].tags = callIn)

\* update_page_tags was called for a record with the completed tag and
\* without the pending tag, and sent nothing.
PatchNoOpWitness ==
    /\ callPc = "tags_called"
    /\ callIn = <<RemoteTag(TagPython), RemoteTag(TagDownloaded)>>
    /\ ~PatchSent

\* ------------------------------------------------ claims on the pools

\* C13: once the parts of a chunk (upload) or of a candidate (download) are
\* submitted, a part only goes from queued to running and from running to
\* finished, whatever the other parts did; and the pipeline leaves the parts
\* (aborts the file or goes on, discards the candidate or joins it) only
\* when every submitted part has finished.
NoSiblingCancellation ==
    [][ /\ upc = "parts" =>
            IF upc' = "parts"
            THEN /\ DOMAIN upParts' = DOMAIN upParts
                 /\ \A p \in DOMAIN upParts :
                        \/ upParts'[p] = upParts[p]
                        \/ upParts[p] = "queued" /\ upParts'[p] = "running"
                        \/ upParts[p] = "running" /\ upParts'[p] \in {"ok", "failed"}
            ELSE \A p \in DOMAIN upParts : upParts[p] \in {"ok", "failed"}
        /\ \A t \in 1..Len(dl) :
            (dpc = "downloading" /\ dl[t].st = "running") =>
                IF dl'[t].st = "running"
                THEN \/ dl'[t].q = dl[t].q /\ dl'[t].f = dl[t].f
                     \/ dl'[t].q = dl[t].q - 1 /\ dl'[t].f = dl[t].f + 1
                     \/ dl'[t].q = dl[t].q /\ dl'[t].f = dl[t].f - 1
                ELSE dl[t].q = 0 /\ dl[t].f = 0
      ]_vars

\* The upload aborted a chunk one of whose parts finished after another
\* had failed.
AbortedAfterLatePart ==
    \E e \in upLog :
        /\ e.ev = "aborted"
        /\ Event("after_failure", e.run, e.file, e.chunk) \in upLog

\* The download discarded a candidate one of whose parts finished after
\* another had failed.
DiscardedAfterLatePart ==
    \E t \in 1..Len(dl) :
        /\ dl[t].st = "failed"
        /\ DEvent("after_failure", tasks[t].page_id) \in dLog

\* The script that was run, upload or download, met the case.
NoSiblingCancellationWitness ==
    \/ upRun > 0 /\ AbortedAfterLatePart
    \/ dRun > 0 /\ DiscardedAfterLatePart

\* ------------------------------------------- claims on the size probe

\* The candidates of the run whose probe gave 0.
ZeroSized == {t \in 1..Len(tasks) : tasks[t].size = 0}

\* C14: within a run, a candidate whose size probe gave 0 (an empty object,
\* or a failed request) is never queued or started, is not among the
\* successful downloads and, when it is a record of its own, gets no PATCH;
\* no step of the run creates a file at its path; and when the total is
\* positive the step that submits queues every candidate of a positive size.
ZeroSizeExcluded ==
    /\ [](\A t \in ZeroSized :
            /\ (dl # <<>>) => (dl[t].st = "none" /\ dl[t].q = 0 /\ dl[t].f = 0)
            /\ t \notin successful
            /\ tasks[t].path \notin partsDirs
            /\ ~IsChunkTask(t) => DEvent("patch", tasks[t].page_id) \notin dLog)
    /\ [][ /\ \A t \in ZeroSized :
                (tasks' = tasks /\ ~Exists(tasks[t].path))
                    => tasks[t].path \notin DOMAIN disk'
           /\ (dpc = "sizing" /\ dpc' = "downloading") =>
                \A t \in 1..Len(tasks) :
                    tasks[t].size > 0 => dl'[t].st = "queued"
       ]_vars

\* A run has gone through its downloads and tag updates with a candidate of
\* an empty object beside a downloaded one, and another with a candidate
\* whose probe failed beside a downloaded one.
ZeroSizeExcludedWitness ==
    /\ dpc \in {"tagging", "reassembling", "grouptags"}
    /\ successful # {}
    /\ \E t \in ZeroSized :
        /\ pages[tasks[t].url].obj = <<>>
        /\ ~Exists(tasks[t].path)

\* A candidate whose probe failed is left out while the run downloads and
\* tags another.
ProbeFailedExcludedWitness ==
    /\ dpc \in {"tagging", "reassembling", "grouptags"}
    /\ successful # {}
    /\ \E t \in ZeroSized :
        /\ pages[tasks[t].url].obj # <<>>
        /\ ~Exists(tasks[t].path)

\* ------------------------------------------- claims on the tag updates

\* The PATCH of the record was sent in this run and failed.
PatchFailed(page_id) ==
    /\ DEvent("patch", page_id) \in dLog
    /\ DEvent("patched", page_id) \notin dLog

\* C15: a PATCH that fails while the records are tagged leaves the run where
\* it was, one record further, with nothing of the batch forgotten; and the
\* run ends in the tagging phases only behind the last group or on a local
\* file error of a reassembly, every downloaded record of its own and every
\* record of a reassembled group having had its PATCH sent by then.
TagFailureIsSoft ==
    [][ /\ (dpc \in {"tagging", "grouptags"} /\ faults' = faults + 1) =>
            /\ dpc' = dpc
            /\ di' = di
            /\ tasks' = tasks /\ groups' = groups /\ successful' = successful
            /\ dpc = "tagging" => Cardinality(dTagged') = Cardinality(dTagged) + 1
            /\ dpc = "grouptags" => dj' = dj + 1
        /\ (dpc \in {"tagging", "reassembling", "grouptags"} /\ dpc' = "idle") =>
            /\ dpc = "reassembling"
            /\ \/ \E g \in 1..Len(groups) :
                    \E ev \in {"reconstruct_failed", "remove_failed"} :
                        DEvent(ev, GroupId(groups[g])) \in dLog' \ dLog
               \/ /\ di > Len(groups)
                  /\ \A t \in successful :
                        ~IsChunkTask(t) => DEvent("patch", tasks[t].page_id) \in dLog
                  /\ \A g \in 1..Len(groups) :
                        \/ DEvent("incomplete", GroupId(groups[g])) \in dLog
                        \/ /\ DEvent("reassembled", GroupId(groups[g])) \in dLog
                           /\ \A m \in 1..Len(groups[g].members) :
                                DEvent("patch", tasks[groups[g].members[m]].page_id)
                                    \in dLog
      ]_vars

\* The PATCH of a record of the first group failed, and the run went on to
\* the other record of the group, reassembled the second group and tagged
\* its records.
TagFailureIsSoftWitness ==
    /\ dpc = "grouptags"
    /\ di = 2
    /\ dj > Len(groups[2].members)
    /\ Len(groups[1].members) = 2
    /\ PatchFailed(tasks[groups[1].members[1]].page_id)
    /\ DEvent("patched", tasks[groups[1].members[2]].page_id) \in dLog
    /\ \A m \in 1..Len(groups[2].members) :
            DEvent("patched", tasks[groups[2].members[m]].page_id) \in dLog

\* ---------------------------------------------- claims on the groups

\* The chunk indices of the records of a group.
ChunkNums(g) ==
    {ParseDescription(pages[tasks[g.members[m]].page_id].desc).chunk_num :
        m \in 1..Len(g.members)}

\* C16: a group whose final file has just been written and whose fragments
\* have been removed has a record for every chunk index 1..N, N being the
\* total its records declare.
CompleteGroupsOnly ==
    dpc = "grouptags" =>
        ChunkNums(groups[di]) = 1..tasks[groups[di].members[1]].total_chunks

\* What the code does look at: a group is reassembled from the records that
\* were listed, whose fragments have all been on disk.
ListedGroupsOnly ==
    [][ (dpc = "reassembling" /\ dpc' = "grouptags") =>
            /\ \A m \in 1..Len(groups[di].members) :
                    /\ Exists(tasks[groups[di].members[m]].path)
                    /\ tasks[groups[di].members[m]].path \notin DOMAIN disk'
            /\ FinalPath(groups[di].filename) \in DOMAIN disk'
      ]_vars

\* ------------------------------------------ claims on what gets tagged

\* The PATCH of the candidate's record was sent in this run.
PatchSentFor(t) == DEvent("patch", tasks[t].page_id) \in dLog

\* The group of the candidate was reassembled in this run.
GroupReassembled(t) ==
    \E g \in 1..Len(groups) :
        /\ \E m \in 1..Len(groups[g].members) : groups[g].members[m] = t
        /\ DEvent("reassembled", GroupId(groups[g])) \in dLog

\* C17: within a run the PATCH of a candidate's record is sent only when the
\* candidate's download returned success, with the final file on disk for a
\* record of its own and with the group reassembled for a chunk; a
\* candidate whose download failed is never tag-updated.
TaggedOnlyAfterDownload ==
    \A t \in 1..Len(tasks) :
        PatchSentFor(t) =>
            /\ dl[t].st = "ok"
            /\ IF IsChunkTask(t) THEN GroupReassembled(t) ELSE Exists(tasks[t].path)

\* What holds of the tag updates: a record of its own is tagged only after
\* its download returned success, with a file at its path; a chunk only
\* after its group was reassembled from the fragments found on disk.
TaggedOnlyWithFileFound ==
    \A t \in 1..Len(tasks) :
        PatchSentFor(t) =>
            IF IsChunkTask(t)
            THEN GroupReassembled(t)
            ELSE dl[t].st = "ok" /\ Exists(tasks[t].path)

\* ------------------------------------------ claims on the files written

\* The file at the candidate's path holds the bytes of the record's object.
WholeFileAt(t) == disk[tasks[t].path] = pages[tasks[t].url].obj

\* C18: a file found at the path of a candidate whose download has returned,
\* with success or not, holds the complete bytes of the candidate; so does a
\* file that a run finds and skips; and the final file of a group just
\* reassembled holds the bytes of the group's records, in order.
NoPartialFinalFile ==
    /\ \A t \in 1..Len(dl) :
            (dl[t].st \in {"ok", "failed"} /\ Exists(tasks[t].path)) => WholeFileAt(t)
    /\ dpc = "grouptags" =>
            disk[FinalPath(groups[di].filename)] =
                CatAll([m \in 1..Len(groups[di].members) |->
                            pages[tasks[groups[di].members[m]].url].obj])

\* The consequence for a later run: a record of its own whose file the run
\* found and skipped, and whose PATCH was sent, has its whole file on disk.
SkippedFileIsWhole ==
    \A t \in 1..Len(dl) :
        (/\ DEvent("skipped", tasks[t].page_id) \in dLog
         /\ ~IsChunkTask(t)
         /\ PatchSentFor(t)) => WholeFileAt(t)

\* What holds: a download that returns success after joining its parts
\* leaves the whole file at the path.
JoinedFileIsWhole ==
    [][ \A t \in 1..Len(dl) :
            (dl[t].st = "running" /\ dl'[t].st = "ok") =>
                disk'[tasks[t].path] = pages[tasks[t].url].obj
      ]_vars

\* ------------------------------------ claims on the upload's step order

\* The part count of chunk k (1-based) of a source file, from its size.
PartCount(f, k) ==
    LET rest == SourceSize[f] - (k - 1) * MAX_FILE_SIZE
        size == IF rest > MAX_FILE_SIZE THEN MAX_FILE_SIZE ELSE rest
    IN (size + PART_SIZE - 1) \div PART_SIZE

\* C19: while the parts of a chunk are sent, and until its record is
\* created, the last session is the chunk's, made for exactly the chunk's
\* part count; a session has received parts numbered within 1..n, each one
\* sent once, one per step; it is finalized only with all n received and in
\* the step after the parts; a record is created only from a finalized
\* session, in the step after the finalization; and the session of chunk
\* k + 1 is asked for only after the record of chunk k was created.
UploadStepOrder ==
    /\ [](/\ upc \in {"parts", "finalize", "record"} =>
                /\ Event("session", upRun, upFile, upChunk + 1) \in upLog
                /\ sessions # <<>>
                /\ sessions[Len(sessions)].filename = ChunkFilename(upFile, upChunk)
                /\ sessions[Len(sessions)].number_of_parts
                        = PartCount(upFile, upChunk + 1)
          /\ upc = "parts" =>
                /\ DOMAIN upParts = 1..PartCount(upFile, upChunk + 1)
                /\ ~sessions[Len(sessions)].completed
                /\ \A p \in DOMAIN upParts :
                        (p \in DOMAIN sessions[Len(sessions)].received)
                            <=> upParts[p] = "ok"
          /\ \A i \in 1..Len(sessions) :
                /\ DOMAIN sessions[i].received \subseteq 1..sessions[i].number_of_parts
                /\ sessions[i].sends = Cardinality(DOMAIN sessions[i].received)
                /\ sessions[i].completed =>
                        DOMAIN sessions[i].received = 1..sessions[i].number_of_parts
          /\ \A e \in upLog :
                /\ (e.ev \in {"session", "session_failed"} /\ e.chunk > 1) =>
                        Event("record", e.run, e.file, e.chunk - 1) \in upLog
                /\ e.ev \in {"finalized", "finalize_failed"} =>
                        Event("parts_sent", e.run, e.file, e.chunk) \in upLog
                /\ e.ev \in {"record", "record_failed"} =>
                        Event("finalized", e.run, e.file, e.chunk) \in upLog)
    /\ [][ /\ \A i \in 1..Len(sessions) :
                /\ sessions'[i].sends \in {sessions[i].sends, sessions[i].sends + 1}
                /\ sessions'[i].sends = sessions[i].sends + 1 =>
                        (i = Len(sessions) /\ upc = "parts")
                /\ (sessions'[i].completed /\ ~sessions[i].completed) =>
                        (i = Len(sessions) /\ upc = "finalize")
           /\ Len(sessions') > Len(sessions) => upc = "session"
           /\ pages' # pages =>
                /\ upc = "record"
                /\ sessions[Len(sessions)].completed
                /\ pages' = Append(pages, pages'[Len(pages')])
                /\ pages'[Len(pages')].obj =
                        Slice(FileBytes(upFile, SourceSize[upFile]),
                              upChunk * MAX_FILE_SIZE,
                              Min((upChunk + 1) * MAX_FILE_SIZE, SourceSize[upFile]) - 1)
       ]_vars

\* The two chunks of c.mp4, of 3 parts and of 2 parts, were uploaded in one
\* run: two finalized sessions and the record of chunk 2.
UploadStepOrderWitness ==
    /\ Event("record", 1, NameC, 2) \in upLog
    /\ Len(sessions) = 2
    /\ sessions[1].completed /\ sessions[1].sends = 3
    /\ sessions[2].completed /\ sessions[2].sends = 2
    /\ Len(pages) = 2

\* ------------------------------------ claims on the download's paths

\* C20: no two candidate downloads that run at the same time have the same
\* destination path, and so none shares its ".parts" directory.
NoSharedDestination ==
    \A t, u \in DRunning : t # u => tasks[t].path # tasks[u].path

\* What the sharing costs: with no request and no file operation failing,
\* a download that returned success has left the whole file.
SharedDestinationKeepsBytes ==
    faults = 0 =>
        \A t \in 1..Len(dl) :
            (dl[t].st = "ok" /\ Exists(tasks[t].path)) => WholeFileAt(t)

\* ------------------------------------ claims on the concatenation order

\* The fragment paths of a group, as main() lists them.
GroupPaths(g) == Listed([m \in 1..Len(g.members) |-> tasks[g.members[m]].path])

\* The same paths in ascending order of the chunk index their records'
\* descriptions carry.
PathsByChunkIndex(g) ==
    Bind(Listed([m \in 1..Len(g.members) |->
                    ParseDescription(pages[tasks[g.members[m]].page_id].desc).chunk_num]),
         LAMBDA nums :
            Bind(Listed([m \in 1..Len(nums) |->
                            Cardinality({u \in 1..Len(nums) : nums[u] < nums[m]}) + 1]),
                 LAMBDA rank :
                    Listed([r \in 1..Len(nums) |->
                        tasks[g.members[CHOOSE m \in 1..Len(nums) : rank[m] = r]].path])))

\* C21: for a group of any chunk count, the order in which
\* reconstruct_file_from_chunks copies the fragments (the sorted paths) is
\* the ascending order of the chunk indices.
FragmentsInChunkOrder ==
    (rtPc = "fetched" /\ di = 1) =>
        \A g \in 1..Len(groups) :
            SortPaths(GroupPaths(groups[g])) = PathsByChunkIndex(groups[g])

\* The same for the groups of fewer than ManyChunks chunks.
FragmentsInChunkOrderBelowManyChunks ==
    (rtPc = "fetched" /\ di = 1 /\ CeilDiv(rtIn.size, rtIn.cap) < ManyChunks) =>
        \A g \in 1..Len(groups) :
            /\ Len(groups[g].members) >= 2
            /\ SortPaths(GroupPaths(groups[g])) = PathsByChunkIndex(groups[g])

\* ---------------------------------------------- claims on the phases

\* The events of the kinds evs that the step adds to the download's log.
NewDEvents(evs) == {e \in dLog' \ dLog : e.ev \in evs}

\* The run has looked at the group: reassembled it or found it incomplete.
GroupLooked(g) ==
    \E ev \in {"reassembled", "incomplete", "reconstruct_failed", "remove_failed"} :
        DEvent(ev, GroupId(groups[g])) \in dLog

\* Every size is known before the first part fetch, and every candidate
\* download has returned before the first reassembly.
ProbesThenDownloadsThenGroups ==
    /\ NewDEvents({"fetch", "skipped"}) # {} =>
            \A t \in 1..Len(tasks) : tasks[t].size # Unprobed
    /\ NewDEvents({"reassembled", "incomplete", "reconstruct_failed",
                   "remove_failed"}) # {} =>
            \A t \in 1..Len(dl) : dl[t].st \in {"none", "ok", "failed"}

\* C22 as stated: in a run every size probe has completed before the first
\* part fetch, every candidate download before the first reassembly, and
\* every reassembly before the first tag update.
StrictPhaseOrder ==
    [][ /\ ProbesThenDownloadsThenGroups
        /\ NewDEvents({"patch"}) # {} => \A g \in 1..Len(groups) : GroupLooked(g)
      ]_vars

\* C22 as amended: every size probe has completed before the first part
\* fetch and every candidate download before the first tag update and the
\* first reassembly; the records of their own are tag-updated before the
\* first reassembly; the records of a group are tag-updated after the
\* group's own reassembly and before the next group is looked at.
PhaseOrderAsCoded ==
    [][ /\ ProbesThenDownloadsThenGroups
        /\ NewDEvents({"reassembled", "incomplete", "reconstruct_failed",
                       "remove_failed"}) # {} =>
                /\ dTagged = successful
                /\ \A h \in 1..Len(groups) : GroupLooked(h) <=> h < di
        /\ \A e \in NewDEvents({"patch"}) :
                /\ \A t \in 1..Len(dl) : dl[t].st \in {"none", "ok", "failed"}
                /\ \A t \in 1..Len(tasks) :
                        tasks[t].page_id = e.id =>
                            IF IsChunkTask(t)
                            THEN /\ \E m \in 1..Len(groups[di].members) :
                                        groups[di].members[m] = t
                                 /\ DEvent("reassembled", GroupId(groups[di])) \in dLog
                                 /\ \A h \in 1..Len(groups) : GroupLooked(h) <=> h <= di
                            ELSE \A h \in 1..Len(groups) : ~GroupLooked(h)
      ]_vars

\* A run tagged a record of its own, then reassembled a group and tagged
\* its two records.
PhaseOrderWitness ==
    /\ dpc = "grouptags"
    /\ dj > Len(groups[di].members)
    /\ Len(groups[di].members) = 2
    /\ \E t \in successful :
            ~IsChunkTask(t) /\ DEvent("patched", tasks[t].page_id) \in dLog
    /\ \A m \in 1..2 :
            DEvent("patched", tasks[groups[di].members[m]].page_id) \in dLog

\* -------------------------------------- claims on the tags that are sent

HasTag(tags, name) == \E i \in 1..Len(tags) : tags[i].name = name

TagsOf(tags) == {tags[i] : i \in 1..Len(tags)}

\* C23: the tag list a call of update_page_tags sends has no pending tag,
\* has the completed tag, has every other tag of the list it was given, as
\* it was, and nothing else; and a record that has the completed tag and no
\* pending tag keeps the one and stays without the other in every update.
SentTagsAreCompleted ==
    /\ []((callPc \in {"tags_called", "tags_recalled"} /\ callOut.patch) =>
            /\ ~HasTag(callOut.sent, TagPending)
            /\ HasTag(callOut.sent, TagDownloaded)
            /\ {t \in TagsOf(callOut.current) : t.name # TagPending}
                    \subseteq TagsOf(callOut.sent)
            /\ TagsOf(callOut.sent) \subseteq
                    {t \in TagsOf(callOut.current) : t.name # TagPending}
                        \cup {[id |-> NoId, name |-> TagDownloaded]}
            /\ DEvent("patch", 1) \in dLog)
    /\ [][ \A i \in 1..Len(pages) :
            /\ (HasTag(pages[i].tags, TagDownloaded) /\ ~HasTag(pages[i].tags, TagPending))
                    => (/\ HasTag(pages'[i].tags, TagDownloaded)
                        /\ ~HasTag(pages'[i].tags, TagPending))
            /\ pages'[i].tags # pages[i].tags =>
                    /\ ~HasTag(pages'[i].tags, TagPending)
                    /\ HasTag(pages'[i].tags, TagDownloaded)
                    /\ \A t \in TagsOf(pages[i].tags) :
                            t.name # TagPending => t \in TagsOf(pages'[i].tags)
         ]_vars

\* A record tagged Python, other and pending was updated, its tags became
\* Python, other and completed, and a later call left them so.
SentTagsWitness ==
    /\ callPc = "tags_recalled"
    /\ callIn = <<RemoteTag(TagPython), RemoteTag(TagOther), RemoteTag(TagPending)>>
    /\ pages[1].tags = <<RemoteTag(TagPython), RemoteTag(TagOther),
                         RemoteTag(TagDownloaded)>>
    /\ ~callOut.patch

\* ------------------------------------------ claims on the scratch files

\* The step ends a run of the download script.
RunEnds == dpc' = "idle" /\ (dpc # "idle" \/ dRun' # dRun)

\* C24: when the download of a candidate that was started returns, with
\* success or not, its ".parts" directory is gone, and only running
\* downloads have one; when a group has been reassembled, none of its
\* fragments is on disk; and when a run ends, temp_chunks is there iff a
\* file is in it, so that it is gone, with every ".parts" directory and
\* every fragment, when nothing has failed.
ScratchIsCleanedUp ==
    /\ [](\A q \in partsDirs :
            \E t \in 1..Len(dl) : dl[t].st = "running" /\ tasks[t].path = q)
    /\ [][ /\ \A t \in 1..Len(dl) :
                (dl[t].st = "running" /\ dl'[t].st \in {"ok", "failed"})
                    => tasks[t].path \notin partsDirs'
           /\ \A e \in dLog' \ dLog :
                e.ev = "reassembled" =>
                    \A m \in 1..Len(groups[di].members) :
                        tasks[groups[di].members[m]].path \notin DOMAIN disk'
           /\ RunEnds =>
                /\ partsDirs' = {}
                /\ tmpDir' <=> \E q \in DOMAIN disk' : q.dir = "tmp"
                /\ faults' = 0 => ~tmpDir'
       ]_vars

\* The first run lost a part of one chunk and left the other chunk's
\* fragment in temp_chunks; the second run reassembled the file and ended
\* with the final file alone on disk and temp_chunks removed.
ScratchWitness ==
    /\ dpc = "idle"
    /\ dRun = 2
    /\ \E i \in 1..Len(pages) :
            /\ [ev |-> "part_failed", run |-> 1, id |-> i] \in dLog
            /\ \E j \in 1..Len(pages) :
                /\ [ev |-> "joined", run |-> 1, id |-> j] \in dLog
                /\ [ev |-> "skipped", run |-> 2, id |-> j] \in dLog
    /\ \E e \in dLog : e.ev = "reassembled" /\ e.run = 2
    /\ ~tmpDir
    /\ partsDirs = {}
    /\ \A q \in DOMAIN disk : q.dir = "dl"

====
